---- MODULE Spec2Model ----
(***************************************************************************)
(* SynDual: the streaming-payment settlement accounting.                   *)
(*                                                                         *)
(*   Spec      QStreamPayments (Solidity) over an ERC20 token              *)
(*   SpecMgr   the SDK's StreamManager                                     *)
(*   SpecPure  the SDK's and the test utilities' pure functions            *)
(***************************************************************************)
EXTENDS Integers, Sequences, FiniteSets, TLC

(***************************************************************************)
(* Bounds of the model.                                                    *)
(***************************************************************************)
\* block.timestamp ranges over 0..MaxTime
MaxTime == 5
\* at most MaxStreams streams are created on chain
MaxStreams == 2
\* the token's total supply never exceeds MaxSupply
MaxSupply == 6
\* settled amounts handed to the SDK range over 0..MaxSettled
MaxSettled == 3

(***************************************************************************)
(* Inputs.                                                                 *)
(***************************************************************************)
ZeroAddress == "0x0"
Accounts == {"alice", "bob"}
\* msg.sender of createStream
Payers == {"alice"}
Recipients == Accounts \cup {ZeroAddress}
Rates == {0, 1, 2}
Times == 0..MaxTime
\* (start, end) pairs handed to createStream: valid windows and rejected ones
Windows == {<<1, 4>>, <<2, 2>>, <<3, 1>>}

VARIABLES
    now,            \* block.timestamp
    streams,        \* QStreamPayments.streams (stream id i is streams[i + 1])
    withdrawn,      \* QStreamPayments.withdrawn
    balances,       \* the token's balanceOf
    allowance,      \* the token's allowance(owner, QStreamPayments)
    lastOp,         \* the last call made to the chain and how it ended
    mgrStreams,     \* StreamManager.streams
    streamsByUser,  \* StreamManager.streamsByUser
    mgrOp,          \* the last call made to the StreamManager
    vt,             \* last call of validateStateTransition and its result
    st,             \* last call of getStreamStatus and its result
    call,           \* last call of one of the SDK's stream functions and its result
    dualStates,     \* DualStateEngine.dualStates
    controllers,    \* DualStateEngine.controllers
    engineOp,       \* the last call made to the DualStateEngine and how it ended
    blockTime,      \* block.timestamp of the block the DualStateEngine is called in
    lastSet,        \* per key, the states of the last setDualState that succeeded
    stack,          \* the withdraw calls in progress, innermost last
    retry,          \* withRetry: the locals of the call in progress
    retryEnv,       \* withRetry: what fn and the timers have done
    breaker,        \* CircuitBreaker: the fields of the object
    breakerEnv,     \* CircuitBreaker: Date.now() and the calls made so far
    bulk,           \* executeMany: the locals of the call in progress
    bulkEnv,        \* executeMany: the invocations of fn made so far
    cache,          \* Cache: the fields of the object
    cacheEnv        \* Cache: Date.now() and the calls made so far

chainVars == <<now, streams, withdrawn, balances, allowance, lastOp>>
mgrVars == <<mgrStreams, streamsByUser, mgrOp>>
pureVars == <<vt, st>>
sdkVars == <<call>>
engineVars == <<dualStates, controllers, engineOp, blockTime, lastSet>>
reVars == <<stack>>
retryVars == <<retry, retryEnv>>
breakerVars == <<breaker, breakerEnv>>
bulkVars == <<bulk, bulkEnv>>
cacheVars == <<cache, cacheEnv>>
\* the variables of the utilities and of the calls in progress
libVars == <<reVars, retryVars, breakerVars, bulkVars, cacheVars>>
\* the variables of the contracts, of the StreamManager and of the SDK functions
coreVars == <<mgrVars, pureVars, sdkVars, engineVars>>
vars == <<now, streams, withdrawn, balances, allowance, lastOp,
          mgrStreams, streamsByUser, mgrOp, vt, st, call,
          dualStates, controllers, engineOp, blockTime, lastSet,
          stack, retry, retryEnv, breaker, breakerEnv, bulk, bulkEnv, cache, cacheEnv>>

(***************************************************************************)
(* QStreamPayments                                                         *)
(***************************************************************************)
StreamIds == 0..(MaxStreams - 1)
\* ids a caller may pass: every stream that can exist and one that never does
CallIds == 0..MaxStreams

Min(a, b) == IF a < b THEN a ELSE b

\* the state a call may write: storage of the contract and of the token
World == [withdrawn |-> withdrawn, balances |-> balances, allowance |-> allowance]

\* a call that returns normally keeps its writes
Return(w) == [result |-> "ok", world |-> w]

\* a failing require leaves the writes of the call in place
NoRollback(reason, w) == [result |-> reason, world |-> w]

\* a failing require reverts the transaction: every write of the call is undone
Revert(reason, w) == [result |-> reason, world |-> World]

\* getWithdrawable with the bound by the stream's end left out
GetWithdrawableUnclamped(streamId, timestamp) ==
    LET s == streams[streamId + 1]
        totalOwed == (timestamp - s.start) * s.ratePerSecond
    IN  IF timestamp <= s.start THEN 0
        ELSE IF totalOwed <= withdrawn[streamId] THEN 0
        ELSE totalOwed - withdrawn[streamId]

\* getWithdrawable that forgets what was already withdrawn
GetWithdrawableGross(streamId, timestamp) ==
    LET s == streams[streamId + 1]
    IN  IF timestamp <= s.start THEN 0
        ELSE (Min(timestamp, s.end) - s.start) * s.ratePerSecond

\* getWithdrawable that owes the whole stream as soon as it has started
GetWithdrawableWholeWindow(streamId, timestamp) ==
    LET s == streams[streamId + 1]
        totalOwed == (s.end - s.start) * s.ratePerSecond
    IN  IF timestamp <= s.start THEN 0
        ELSE IF totalOwed <= withdrawn[streamId] THEN 0
        ELSE totalOwed - withdrawn[streamId]

\* getWithdrawable whose last second never flows
GetWithdrawableShortOfEnd(streamId, timestamp) ==
    LET s == streams[streamId + 1]
        effectiveEnd == IF timestamp < s.end - 1 THEN timestamp ELSE s.end - 1
        totalOwed == (effectiveEnd - s.start) * s.ratePerSecond
    IN  IF timestamp <= s.start THEN 0
        ELSE IF totalOwed <= withdrawn[streamId] THEN 0
        ELSE totalOwed - withdrawn[streamId]

\* getWithdrawable(streamId) of an existing stream at block.timestamp = timestamp
GetWithdrawable(streamId, timestamp) ==
    LET s == streams[streamId + 1]
        effectiveEnd == IF timestamp < s.end THEN timestamp ELSE s.end
        elapsed == effectiveEnd - s.start
        totalOwed == elapsed * s.ratePerSecond
        alreadyWithdrawn == withdrawn[streamId]
    IN  IF timestamp <= s.start THEN 0
        ELSE IF totalOwed <= alreadyWithdrawn THEN 0
        ELSE totalOwed - alreadyWithdrawn

\* getWithdrawable that fails when nothing is due
GetWithdrawableCallNothingDue(streamId, timestamp) ==
    IF ~(streamId < Len(streams))
    THEN [result |-> "invalid stream", value |-> 0]
    ELSE IF GetWithdrawable(streamId, timestamp) = 0
    THEN [result |-> "nothing to withdraw", value |-> 0]
    ELSE [result |-> "ok", value |-> GetWithdrawable(streamId, timestamp)]

\* getWithdrawable(streamId) called in a block stamped timestamp: how the call
\* ends and what it returns. effectiveEnd - s.start is a checked subtraction.
GetWithdrawableCall(streamId, timestamp) ==
    IF ~(streamId < Len(streams))
    THEN [result |-> "invalid stream", value |-> 0]
    ELSE LET s == streams[streamId + 1]
         IN  IF timestamp > s.start /\ Min(timestamp, s.end) < s.start
             THEN [result |-> "panic", value |-> 0]
             ELSE [result |-> "ok", value |-> GetWithdrawable(streamId, timestamp)]

\* ERC20.transferFrom(from, to, amount) called by QStreamPayments on world w.
\* returnsFalse: the token reports a failure by returning false; SyndualToken
\* (OpenZeppelin ERC20) reverts instead.
TransferFrom(w, from, to, amount, returnsFalse) ==
    IF w.allowance[from] < amount \/ w.balances[from] < amount
    THEN [status |-> IF returnsFalse THEN "false" ELSE "revert", world |-> w]
    ELSE LET debited == [w.balances EXCEPT ![from] = @ - amount]
             credited == [debited EXCEPT ![to] = @ + amount]
         IN  [status |-> "true",
              world |-> [w EXCEPT !.allowance[from] = @ - amount,
                                  !.balances = credited]]

\* withdraw that does not record the amount it pays
WithdrawCallNoRecord(streamId, returnsFalse) ==
    IF ~(streamId < Len(streams)) THEN Revert("invalid stream", World)
    ELSE
    LET s == streams[streamId + 1]
        amount == GetWithdrawable(streamId, now)
        t == TransferFrom(World, s.from, s.to, amount, returnsFalse)
    IN  IF ~(amount > 0) THEN Revert("nothing to withdraw", World)
        ELSE IF ~(allowance[s.from] >= amount) THEN Revert("insufficient allowance", World)
        ELSE IF t.status = "true" THEN Return(t.world)
        ELSE Revert("transfer failed", World)

\* withdraw(streamId): the outcome of the call and the state it leaves
WithdrawCall(streamId, returnsFalse) ==
    IF ~(streamId < Len(streams)) THEN Revert("invalid stream", World)
    ELSE
    LET s == streams[streamId + 1]
        amount == GetWithdrawable(streamId, now)
        w1 == [World EXCEPT !.withdrawn[streamId] = @ + amount]
        t == TransferFrom(w1, s.from, s.to, amount, returnsFalse)
    IN  IF ~(amount > 0) THEN Revert("nothing to withdraw", World)
        ELSE IF ~(allowance[s.from] >= amount) THEN Revert("insufficient allowance", World)
        ELSE IF t.status = "true" THEN Return(t.world)
        ELSE IF t.status = "false" THEN Revert("transfer failed", t.world)
        ELSE Revert("token reverted", t.world)

Op(op, id, result, again) == [op |-> op, id |-> id, result |-> result, again |-> again]

InitChain ==
    /\ now = 0
    /\ streams = <<>>
    /\ withdrawn = [i \in StreamIds |-> 0]
    /\ balances = [a \in Accounts |-> 0]
    /\ allowance = [a \in Accounts |-> 0]
    /\ lastOp = Op("deploy", -1, "ok", FALSE)

\* createStream(to, ratePerSecond, start, end) sent by sender
CreateStream(sender, to, ratePerSecond, start, end) ==
    /\ Len(streams) < MaxStreams
    /\ IF to = ZeroAddress
       THEN /\ lastOp' = Op("createStream", -1, "invalid recipient", FALSE)
            /\ UNCHANGED streams
       ELSE IF ~(ratePerSecond > 0)
       THEN /\ lastOp' = Op("createStream", -1, "rate zero", FALSE)
            /\ UNCHANGED streams
       ELSE IF ~(end > start)
       THEN /\ lastOp' = Op("createStream", -1, "invalid time", FALSE)
            /\ UNCHANGED streams
       ELSE /\ streams' = Append(streams,
                    [from |-> sender, to |-> to, ratePerSecond |-> ratePerSecond,
                     start |-> start, end |-> end])
            /\ lastOp' = Op("createStream", Len(streams), "ok", FALSE)
    /\ UNCHANGED <<now, withdrawn, balances, allowance, mgrVars, pureVars, sdkVars, engineVars, libVars>>

\* withdraw(streamId), sent by anyone
Withdraw(streamId, returnsFalse) ==
    LET r == WithdrawCall(streamId, returnsFalse)
    IN  /\ withdrawn' = r.world.withdrawn
        /\ balances' = r.world.balances
        /\ allowance' = r.world.allowance
        /\ lastOp' = Op("withdraw", streamId, r.result,
                        lastOp.op = "withdraw" /\ lastOp.id = streamId /\ lastOp.result = "ok")
        /\ UNCHANGED <<now, streams, mgrVars, pureVars, sdkVars, engineVars, libVars>>

TotalSupply == balances["alice"] + balances["bob"]

\* SyndualToken.mint(to, amount), sent by the owner
Mint(to, amount) ==
    /\ TotalSupply + amount <= MaxSupply
    /\ balances' = [balances EXCEPT ![to] = @ + amount]
    /\ lastOp' = Op("mint", -1, "ok", FALSE)
    /\ UNCHANGED <<now, streams, withdrawn, allowance, mgrVars, pureVars, sdkVars, engineVars, libVars>>

\* ERC20.approve(QStreamPayments, amount), sent by owner
Approve(owner, amount) ==
    /\ allowance' = [allowance EXCEPT ![owner] = amount]
    /\ lastOp' = Op("approve", -1, "ok", FALSE)
    /\ UNCHANGED <<now, streams, withdrawn, balances, mgrVars, pureVars, sdkVars, engineVars, libVars>>

\* a block with a later timestamp is mined
Tick ==
    /\ now < MaxTime
    /\ now' = now + 1
    /\ lastOp' = Op("tick", -1, "ok", FALSE)
    /\ UNCHANGED <<streams, withdrawn, balances, allowance, mgrVars, pureVars, sdkVars, engineVars, libVars>>


(***************************************************************************)
(* QStreamPayments with a token that calls back.  The token keeps honest   *)
(* books but hands control to the parties during transferFrom, who may     *)
(* call withdraw again before or after the balances move.  stack holds the *)
(* withdraw calls that are waiting for their transferFrom to return.       *)
(***************************************************************************)
\* withdraw calls nested in one another
MaxDepth == 2

\* withdraw up to the external call, with the write of withdrawn left out
WithdrawStartNoWrite(streamId) ==
    IF ~(streamId < Len(streams)) THEN Revert("invalid stream", World)
    ELSE
    LET s == streams[streamId + 1]
        amount == GetWithdrawable(streamId, now)
    IN  IF ~(amount > 0) THEN Revert("nothing to withdraw", World)
        ELSE IF ~(allowance[s.from] >= amount) THEN Revert("insufficient allowance", World)
        ELSE Return(World)

\* withdraw up to the external call: the requires and withdrawn[streamId] += amount
WithdrawStart(streamId) ==
    IF ~(streamId < Len(streams)) THEN Revert("invalid stream", World)
    ELSE
    LET s == streams[streamId + 1]
        amount == GetWithdrawable(streamId, now)
    IN  IF ~(amount > 0) THEN Revert("nothing to withdraw", World)
        ELSE IF ~(allowance[s.from] >= amount) THEN Revert("insufficient allowance", World)
        ELSE Return([World EXCEPT !.withdrawn[streamId] = @ + amount])

\* the innermost withdraw in progress
Top == stack[Len(stack)]
Pop == SubSeq(stack, 1, Len(stack) - 1)

\* the state of contract and token becomes w
SetWorld(w) ==
    /\ withdrawn' = w.withdrawn
    /\ balances' = w.balances
    /\ allowance' = w.allowance

\* withdraw(streamId) is called: by an account when no call is in progress, by
\* the token's callback otherwise. A call that fails a require reverts at once
\* and its caller goes on.
WithdrawEnter(streamId) ==
    /\ Len(stack) < MaxDepth
    /\ LET r == WithdrawStart(streamId)
           nested == IF stack = <<>> THEN "withdraw" ELSE "withdraw in transferFrom"
       IN  IF r.result = "ok"
           THEN /\ SetWorld(r.world)
                /\ stack' = Append(stack,
                       [id |-> streamId, amount |-> GetWithdrawable(streamId, now),
                        moved |-> FALSE, saved |-> World])
                /\ lastOp' = Op(nested, streamId, "called token", FALSE)
           ELSE /\ UNCHANGED <<withdrawn, balances, allowance, stack>>
                /\ lastOp' = Op(nested, streamId, r.result, FALSE)
    /\ UNCHANGED <<now, streams, coreVars, retryVars, breakerVars, bulkVars, cacheVars>>

\* the token moves the amount of the innermost call, or reverts for want of
\* balance or allowance, which reverts that call of withdraw
TokenMove ==
    /\ stack # <<>>
    /\ ~Top.moved
    /\ LET s == streams[Top.id + 1]
           t == TransferFrom(World, s.from, s.to, Top.amount, FALSE)
       IN  IF t.status = "true"
           THEN /\ SetWorld(t.world)
                /\ stack' = [stack EXCEPT ![Len(stack)].moved = TRUE]
                /\ lastOp' = Op("transferFrom", Top.id, "moved", FALSE)
           ELSE /\ SetWorld(Top.saved)
                /\ stack' = Pop
                /\ lastOp' = Op("withdraw", Top.id, "token reverted", FALSE)
    /\ UNCHANGED <<now, streams, coreVars, retryVars, breakerVars, bulkVars, cacheVars>>

\* transferFrom returns false or a callback makes it revert: the innermost
\* withdraw reverts, and with it everything done since it was called
TokenFail ==
    /\ stack # <<>>
    /\ SetWorld(Top.saved)
    /\ stack' = Pop
    /\ lastOp' = Op("withdraw", Top.id, "transfer failed", FALSE)
    /\ UNCHANGED <<now, streams, coreVars, retryVars, breakerVars, bulkVars, cacheVars>>

\* transferFrom returns true and the innermost withdraw returns
TokenReturn ==
    /\ stack # <<>>
    /\ Top.moved
    /\ stack' = Pop
    /\ lastOp' = Op("withdraw", Top.id, "ok", FALSE)
    /\ UNCHANGED <<now, streams, withdrawn, balances, allowance,
                   coreVars, retryVars, breakerVars, bulkVars, cacheVars>>

(***************************************************************************)
(* StreamStatus and the pure functions                                     *)
(***************************************************************************)
ACTIVE == "ACTIVE"
PAUSED == "PAUSED"
SETTLED == "SETTLED"
CANCELLED == "CANCELLED"
EXPIRED == "EXPIRED"
StreamStatus == {ACTIVE, PAUSED, SETTLED, CANCELLED, EXPIRED}
\* StreamStatus has no member WITHDRAWN: the expression evaluates to undefined
WITHDRAWN == "undefined"

\* an optional bigint field: {} when absent, {v} when it holds v
Undefined == {}
Some(v) == {v}
ValueOf(opt) == CHOOSE v \in opt : TRUE

\* the table of validateStateTransition with EXPIRED -> SETTLED added
ValidTransitionsLoose ==
    [s \in StreamStatus \cup {WITHDRAWN} |->
        CASE s = ACTIVE -> {PAUSED, SETTLED, CANCELLED}
          [] s = PAUSED -> {ACTIVE, CANCELLED}
          [] s = EXPIRED -> {SETTLED}
          [] OTHER -> {}]

\* validTransitions of validateStateTransition
ValidTransitions ==
    [s \in StreamStatus \cup {WITHDRAWN} |->
        CASE s = ACTIVE -> {PAUSED, SETTLED, CANCELLED}
          [] s = PAUSED -> {ACTIVE, CANCELLED}
          [] s = SETTLED -> {}
          [] s = CANCELLED -> {}
          [] s = EXPIRED -> {WITHDRAWN}
          [] s = WITHDRAWN -> {}]

\* StateMachineValidator.validateStateTransition(fromState, toState)
ValidateStateTransition(fromState, toState) ==
    IF fromState \in DOMAIN ValidTransitions
    THEN toState \in ValidTransitions[fromState]
    ELSE FALSE

\* getStreamStatus(stream, currentTime)
GetStreamStatus(stream, currentTime) ==
    LET current == currentTime
        totalAmount == stream.ratePerSecond * (stream.end - stream.start)
    IN  IF current < stream.start THEN ACTIVE
        ELSE IF current >= stream.end
        THEN IF stream.settled = Some(totalAmount) THEN SETTLED ELSE EXPIRED
        ELSE ACTIVE

\* streams handed to the pure functions
PureStreams ==
    [from : {"alice"}, to : {"bob"}, ratePerSecond : {1, 2}, start : {0, 1},
     end : {2, 3}, settled : {Undefined} \cup {Some(v) : v \in 0..MaxSettled}]

InitPure ==
    /\ vt = [fromState |-> "none", toState |-> "none", result |-> FALSE]
    /\ st = [stream |-> <<>>, currentTime |-> 0, result |-> "none"]

CallValidateStateTransition(fromState, toState) ==
    /\ vt' = [fromState |-> fromState, toState |-> toState,
              result |-> ValidateStateTransition(fromState, toState)]
    /\ UNCHANGED <<st, chainVars, mgrVars, sdkVars, engineVars, libVars>>

CallGetStreamStatus(stream, currentTime) ==
    /\ st' = [stream |-> stream, currentTime |-> currentTime,
              result |-> GetStreamStatus(stream, currentTime)]
    /\ UNCHANGED <<vt, chainVars, mgrVars, sdkVars, engineVars, libVars>>

\* calculateStreamFlow that goes on flowing after the end
CalculateStreamFlowUnbounded(stream, currentTime) ==
    IF currentTime < stream.start THEN 0
    ELSE stream.ratePerSecond * (currentTime - stream.start)

\* calculateStreamFlow that has reached the end one second late
CalculateStreamFlowLateEnd(stream, currentTime) ==
    IF currentTime < stream.start THEN 0
    ELSE IF currentTime > stream.end
    THEN stream.ratePerSecond * (stream.end - stream.start)
    ELSE stream.ratePerSecond * (currentTime - stream.start + 1)

\* calculateStreamFlow(stream, currentTime)
CalculateStreamFlow(stream, currentTime) ==
    LET current == currentTime
    IN  IF current < stream.start THEN 0
        ELSE IF current >= stream.end
        THEN stream.ratePerSecond * (stream.end - stream.start)
        ELSE stream.ratePerSecond * (current - stream.start)

\* the total capacity of a stream: ratePerSecond * (end - start)
TotalCapacity(stream) == stream.ratePerSecond * (stream.end - stream.start)

(***************************************************************************)
(* StreamManager                                                           *)
(***************************************************************************)
\* no list of streamsByUser grows beyond MaxUserStreams entries
MaxUserStreams == 3

MgrIds == {"s1", "s2"}
Users == {"alice", "bob"}
\* streams handed to StreamManager.createStream
MgrStreams ==
    {[from |-> p[1], to |-> p[2], ratePerSecond |-> 1, start |-> 0, end |-> 2,
      settled |-> Undefined] : p \in {<<"alice", "bob">>, <<"bob", "bob">>}}

\* Map.set(key, value)
MapSet(m, key, value) == [k \in DOMAIN m \cup {key} |-> IF k = key THEN value ELSE m[k]]
\* Map.delete(key)
MapDelete(m, key) == [k \in DOMAIN m \ {key} |-> m[k]]
\* Map.get(key) || []
ListOf(m, key) == IF key \in DOMAIN m THEN m[key] ELSE <<>>

\* Array.indexOf, 1-based; 0 when absent
IndexOf(list, x) ==
    IF \E i \in 1..Len(list) : list[i] = x
    THEN CHOOSE i \in 1..Len(list) : list[i] = x /\ \A j \in 1..(i - 1) : list[j] # x
    ELSE 0

\* ids.splice(idx, 1) at the first occurrence of x, if there is one
RemoveFirst(list, x) ==
    LET idx == IndexOf(list, x)
    IN  IF idx = 0 THEN list
        ELSE [i \in 1..(Len(list) - 1) |-> IF i < idx THEN list[i] ELSE list[i + 1]]

InitMgr ==
    /\ mgrStreams = <<>>
    /\ streamsByUser = <<>>
    /\ mgrOp = [op |-> "new", id |-> "none"]

\* streamsByUser after createStream's loop over [stream.from, stream.to]
IndexAdd(index, stream, streamId) ==
    LET one == MapSet(index, stream.from, Append(ListOf(index, stream.from), streamId))
    IN  MapSet(one, stream.to, Append(ListOf(one, stream.to), streamId))

\* streamsByUser after deleteStream's loop over [stream.from, stream.to]
IndexRemove(index, stream, streamId) ==
    LET one == IF stream.from \in DOMAIN index
               THEN MapSet(index, stream.from, RemoveFirst(index[stream.from], streamId))
               ELSE index
    IN  IF stream.to \in DOMAIN one
        THEN MapSet(one, stream.to, RemoveFirst(one[stream.to], streamId))
        ELSE one

\* StreamManager.createStream(streamId, stream)
MgrCreateStream(streamId, stream) ==
    /\ \A u \in Users : Len(ListOf(IndexAdd(streamsByUser, stream, streamId), u)) <= MaxUserStreams
    /\ mgrStreams' = MapSet(mgrStreams, streamId,
            [from |-> stream.from, to |-> stream.to, ratePerSecond |-> stream.ratePerSecond,
             start |-> stream.start, end |-> stream.end, settled |-> stream.settled,
             id |-> streamId, status |-> ACTIVE])
    /\ streamsByUser' = IndexAdd(streamsByUser, stream, streamId)
    /\ mgrOp' = [op |-> "createStream", id |-> streamId]
    /\ UNCHANGED <<chainVars, pureVars, sdkVars, engineVars, libVars>>

\* StreamManager.updateStreamStatus(streamId, status)
UpdateStreamStatus(streamId, status) ==
    /\ mgrStreams' = IF streamId \in DOMAIN mgrStreams
                     THEN [mgrStreams EXCEPT ![streamId].status = status]
                     ELSE mgrStreams
    /\ mgrOp' = [op |-> "updateStreamStatus", id |-> streamId]
    /\ UNCHANGED <<streamsByUser, chainVars, pureVars, sdkVars, engineVars, libVars>>

\* StreamManager.updateSettlement(streamId, settledAmount)
UpdateSettlement(streamId, settledAmount) ==
    /\ mgrStreams' = IF streamId \in DOMAIN mgrStreams
                     THEN [mgrStreams EXCEPT ![streamId].settled = Some(settledAmount)]
                     ELSE mgrStreams
    /\ mgrOp' = [op |-> "updateSettlement", id |-> streamId]
    /\ UNCHANGED <<streamsByUser, chainVars, pureVars, sdkVars, engineVars, libVars>>

\* StreamManager.deleteStream(streamId)
DeleteStream(streamId) ==
    /\ IF streamId \notin DOMAIN mgrStreams
       THEN UNCHANGED <<mgrStreams, streamsByUser>>
       ELSE /\ mgrStreams' = MapDelete(mgrStreams, streamId)
            /\ streamsByUser' = IndexRemove(streamsByUser, mgrStreams[streamId], streamId)
    /\ mgrOp' = [op |-> "deleteStream", id |-> streamId]
    /\ UNCHANGED <<chainVars, pureVars, sdkVars, engineVars, libVars>>

\* StreamManager.getUserStreams(address): the ids of the user's list mapped to
\* streams.get(id), the undefined ones filtered out
GetUserStreams(address) ==
    LET ids == ListOf(streamsByUser, address)
        tracked == SelectSeq(ids, LAMBDA id : id \in DOMAIN mgrStreams)
    IN  [k \in 1..Len(tracked) |-> mgrStreams[tracked[k]]]

(***************************************************************************)
(* The SDK's stream functions, called one at a time                        *)
(***************************************************************************)
\* a batch handed to BatchStreamManager holds at most MaxBatch streams, when
\* it is not one of the long batches of LongBatchSizes
MaxBatch == 3

\* streams handed to calculateStreamFlow
FlowStreams ==
    [from : {"alice"}, to : {"bob"}, ratePerSecond : {1, 2, 3}, start : {0, 1, 2},
     end : {1, 2, 3, 4}, total : {Undefined}, settled : {Undefined}]

InitSdk == call = [fn |-> "none"]

\* The functions below keep nothing between calls, so a behaviour makes one
\* call and call records it: its arguments and what it returned.
NoCallYet == call.fn = "none"

CallCalculateStreamFlow(stream, currentTime) ==
    /\ NoCallYet
    /\ call' = [fn |-> "calculateStreamFlow", stream |-> stream,
                currentTime |-> currentTime,
                result |-> CalculateStreamFlow(stream, currentTime)]
    /\ UNCHANGED <<chainVars, mgrVars, pureVars, engineVars, libVars>>

\* streams handed to validateStream: empty parties, rates and times on both
\* sides of zero, the optional fields absent, zero and on both sides of
\* rate * duration
ValidateStreams ==
    [from : {"", "alice"}, to : {"", "bob"}, ratePerSecond : {-1, 0, 1, 2},
     start : {-1, 0, 1, 2}, end : {-1, 0, 2, 3},
     total : {Undefined, Some(0), Some(1), Some(5)},
     settled : {Undefined, Some(0), Some(2), Some(4)}]

\* the truth value JavaScript gives an optional bigint: false for undefined and 0n
Truthy(opt) == opt # Undefined /\ ValueOf(opt) # 0

\* errors.length > 0 ? errors : undefined
NonEmptyOrUndefined(list) == IF Len(list) > 0 THEN Some(list) ELSE Undefined

\* validateStream(stream)
ValidateStream(stream) ==
    LET fromErr == IF stream.from = ""
                   THEN <<"Stream 'from' address is required">> ELSE <<>>
        toErr == IF stream.to = ""
                 THEN <<"Stream 'to' address is required">> ELSE <<>>
        rateErr == IF stream.ratePerSecond <= 0
                   THEN <<"Rate per second must be positive">> ELSE <<>>
        orderErr == IF stream.start >= stream.end
                    THEN <<"Stream start time must be before end time">> ELSE <<>>
        signErr == IF stream.start < 0 \/ stream.end < 0
                   THEN <<"Stream times must be non-negative">> ELSE <<>>
        duration == stream.end - stream.start
        total == stream.ratePerSecond * duration
        warnings == IF Truthy(stream.total) /\ ValueOf(stream.total) # total
                    THEN <<"Total amount does not match rate * duration">> ELSE <<>>
        limit == IF Truthy(stream.total) THEN ValueOf(stream.total) ELSE total
        settledErr == IF Truthy(stream.settled) /\ ValueOf(stream.settled) > limit
                      THEN <<"Settled amount exceeds total">> ELSE <<>>
        errors == fromErr \o toErr \o rateErr \o orderErr \o signErr \o settledErr
    IN  [valid |-> Len(errors) = 0,
         errors |-> NonEmptyOrUndefined(errors),
         warnings |-> NonEmptyOrUndefined(warnings)]

CallValidateStream(stream) ==
    /\ NoCallYet
    /\ call' = [fn |-> "validateStream", stream |-> stream,
                result |-> ValidateStream(stream)]
    /\ UNCHANGED <<chainVars, mgrVars, pureVars, engineVars, libVars>>

\* the literal validateBatch compares streams.length with
BatchSizeLimit == 1000
\* PROTOCOL_PARAMETERS.MAX_BATCH_SIZE
MAX_BATCH_SIZE == 100

\* streams a batch is made of: three that pass validateStream, with two senders
\* and three receivers between them, and one of rate 0
GoodStream == [from |-> "alice", to |-> "bob", ratePerSecond |-> 1, start |-> 0,
               end |-> 2, total |-> Undefined, settled |-> Undefined]
ZeroRateStream == [GoodStream EXCEPT !.from = "bob", !.ratePerSecond = 0]
BatchStreams ==
    {GoodStream, ZeroRateStream,
     [GoodStream EXCEPT !.from = "bob", !.to = "alice", !.ratePerSecond = 2,
                        !.start = 1, !.end = 4],
     [GoodStream EXCEPT !.to = "carol", !.ratePerSecond = 3, !.end = 1]}

\* sizes on both sides of the two limits
LongBatchSizes == {MAX_BATCH_SIZE, MAX_BATCH_SIZE + 1, BatchSizeLimit, BatchSizeLimit + 1}
\* long batches of streams that pass, some ending with the stream of rate 0
LongBatches ==
    {[i \in 1..n |-> IF i = n /\ bad THEN ZeroRateStream ELSE GoodStream] :
        n \in LongBatchSizes, bad \in BOOLEAN}
ShortBatches == UNION {[1..n -> BatchStreams] : n \in 0..MaxBatch}
Batches == ShortBatches \cup LongBatches

\* an entry of validateBatch's errors: `Stream ${i}: ${errors.join(", ")}` is
\* kept as the index i and the list joined; a message about the batch as a
\* whole carries no index
StreamEntry(i, messages) == [index |-> Some(i), messages |-> messages]
BatchEntry(message) == [index |-> Undefined, messages |-> <<message>>]

\* the indices 0..streams.length-1 in the order the loop of validateBatch
\* visits them
LoopIndices(batch) == [k \in 1..Len(batch) |-> k - 1]

\* validateBatch: !result.valid && result.errors for the stream at index i
PushesError(batch, i) ==
    /\ ~ValidateStream(batch[i + 1]).valid
    /\ ValidateStream(batch[i + 1]).errors # Undefined

\* the loop of validateBatch leaving at the first stream that fails
StreamErrorsShortCircuit(batch) ==
    LET failing == SelectSeq(LoopIndices(batch), LAMBDA i : PushesError(batch, i))
    IN  IF Len(failing) = 0 THEN <<>>
        ELSE <<StreamEntry(failing[1], ValueOf(ValidateStream(batch[failing[1] + 1]).errors))>>

\* validateBatch: what the loop over the streams pushes, one entry per stream
\* that fails validateStream, in the order of the batch
StreamErrors(batch) ==
    LET failing == SelectSeq(LoopIndices(batch), LAMBDA i : PushesError(batch, i))
    IN  [k \in 1..Len(failing) |->
            StreamEntry(failing[k], ValueOf(ValidateStream(batch[failing[k] + 1]).errors))]

\* BatchStreamManager.validateBatch(streams)
ValidateBatch(batch) ==
    LET emptyErr == IF Len(batch) = 0 THEN <<BatchEntry("Batch is empty")>> ELSE <<>>
        sizeErr == IF Len(batch) > BatchSizeLimit
                   THEN <<BatchEntry("Batch size exceeds 1000 streams")>> ELSE <<>>
        errors == emptyErr \o sizeErr \o StreamErrors(batch)
    IN  [valid |-> Len(errors) = 0, errors |-> NonEmptyOrUndefined(errors)]

CallValidateBatch(batch) ==
    /\ NoCallYet
    /\ call' = [fn |-> "validateBatch", streams |-> batch,
                result |-> ValidateBatch(batch)]
    /\ UNCHANGED <<chainVars, mgrVars, pureVars, engineVars, libVars>>

\* calculateBatchValue whose reducer forgets the sum so far
RECURSIVE ReduceValueForgetful(_, _, _)
ReduceValueForgetful(batch, i, sum) ==
    IF ~(i < Len(batch)) THEN sum
    ELSE ReduceValueForgetful(batch, i + 1,
             batch[i + 1].ratePerSecond * (batch[i + 1].end - batch[i + 1].start))

\* streams.reduce((sum, stream) => sum + total, ...) from index i on
RECURSIVE ReduceValue(_, _, _)
ReduceValue(batch, i, sum) ==
    IF ~(i < Len(batch)) THEN sum
    ELSE LET stream == batch[i + 1]
             total == stream.ratePerSecond * (stream.end - stream.start)
         IN  ReduceValue(batch, i + 1, sum + total)

\* BatchStreamManager.calculateBatchValue(streams)
CalculateBatchValue(batch) == ReduceValue(batch, 0, 0)

CallCalculateBatchValue(batch) ==
    /\ NoCallYet
    /\ call' = [fn |-> "calculateBatchValue", streams |-> batch,
                result |-> CalculateBatchValue(batch)]
    /\ UNCHANGED <<chainVars, mgrVars, pureVars, engineVars, libVars>>

\* new Map<string, Stream[]>()
EmptyMap == [k \in {} |-> <<>>]

\* the grouping loop putting a stream at the head of its group
RECURSIVE GroupLoopPrepend(_, _, _, _)
GroupLoopPrepend(batch, i, groups, field) ==
    IF ~(i < Len(batch)) THEN groups
    ELSE LET stream == batch[i + 1]
             key == stream[field]
             withKey == IF key \notin DOMAIN groups THEN groups @@ (key :> <<>>)
                        ELSE groups
         IN  GroupLoopPrepend(batch, i + 1,
                 [withKey EXCEPT ![key] = <<stream>> \o @], field)

\* for (const stream of streams) of groupBySender (field "from") and
\* groupByReceiver (field "to"), from index i on
RECURSIVE GroupLoop(_, _, _, _)
GroupLoop(batch, i, groups, field) ==
    IF ~(i < Len(batch)) THEN groups
    ELSE LET stream == batch[i + 1]
             key == stream[field]
             withKey == IF key \notin DOMAIN groups THEN groups @@ (key :> <<>>)
                        ELSE groups
         IN  GroupLoop(batch, i + 1, [withKey EXCEPT ![key] = Append(@, stream)], field)

\* BatchStreamManager.groupBySender(streams)
GroupBySender(batch) == GroupLoop(batch, 0, EmptyMap, "from")

\* BatchStreamManager.groupByReceiver(streams)
GroupByReceiver(batch) == GroupLoop(batch, 0, EmptyMap, "to")

CallGroupBySender(batch) ==
    /\ NoCallYet
    /\ call' = [fn |-> "groupBySender", streams |-> batch, field |-> "from",
                result |-> GroupBySender(batch)]
    /\ UNCHANGED <<chainVars, mgrVars, pureVars, engineVars, libVars>>

CallGroupByReceiver(batch) ==
    /\ NoCallYet
    /\ call' = [fn |-> "groupByReceiver", streams |-> batch, field |-> "to",
                result |-> GroupByReceiver(batch)]
    /\ UNCHANGED <<chainVars, mgrVars, pureVars, engineVars, libVars>>

(***************************************************************************)
(* Amounts at their full width.  A uint256 and a bigint are kept as the    *)
(* sequence of their base-Base digits, least significant first, with no    *)
(* leading zero digit; <<>> is 0.                                          *)
(***************************************************************************)
Base == 10000

Limb(a, i) == IF i <= Len(a) THEN a[i] ELSE 0

RECURSIVE Trim(_)
Trim(a) ==
    IF a = <<>> THEN a
    ELSE IF a[Len(a)] = 0 THEN Trim(SubSeq(a, 1, Len(a) - 1))
    ELSE a

\* the digits of a number small enough to be written down
RECURSIVE BigOf(_)
BigOf(n) == IF n = 0 THEN <<>> ELSE <<n % Base>> \o BigOf(n \div Base)

RECURSIVE AddFrom(_, _, _, _)
AddFrom(a, b, i, carry) ==
    IF i > Len(a) /\ i > Len(b)
    THEN IF carry = 0 THEN <<>> ELSE <<carry>>
    ELSE LET t == Limb(a, i) + Limb(b, i) + carry
         IN  <<t % Base>> \o AddFrom(a, b, i + 1, t \div Base)

\* a + b
BigAdd(a, b) == AddFrom(a, b, 1, 0)

RECURSIVE SubFrom(_, _, _, _)
SubFrom(a, b, i, borrow) ==
    IF i > Len(a) THEN <<>>
    ELSE LET t == a[i] - Limb(b, i) - borrow
         IN  <<IF t < 0 THEN t + Base ELSE t>>
                 \o SubFrom(a, b, i + 1, IF t < 0 THEN 1 ELSE 0)

\* a - b, for a >= b
BigSub(a, b) == Trim(SubFrom(a, b, 1, 0))

RECURSIVE MulLimbFrom(_, _, _, _)
MulLimbFrom(a, d, i, carry) ==
    IF i > Len(a)
    THEN IF carry = 0 THEN <<>> ELSE <<carry>>
    ELSE LET t == a[i] * d + carry
         IN  <<t % Base>> \o MulLimbFrom(a, d, i + 1, t \div Base)

\* a * Base^k
Shift(a, k) == IF a = <<>> THEN <<>> ELSE [j \in 1..k |-> 0] \o a

RECURSIVE MulFrom(_, _, _)
MulFrom(a, b, i) ==
    IF i > Len(b) THEN <<>>
    ELSE BigAdd(Shift(Trim(MulLimbFrom(a, b[i], 1, 0)), i - 1), MulFrom(a, b, i + 1))

\* a * b
BigMul(a, b) == MulFrom(a, b, 1)

\* a < b
BigLess(a, b) ==
    IF Len(a) # Len(b) THEN Len(a) < Len(b)
    ELSE \E i \in 1..Len(a) :
            /\ a[i] < b[i]
            /\ \A j \in (i + 1)..Len(a) : a[j] = b[j]

BigLeq(a, b) == a = b \/ BigLess(a, b)

\* 2^n
RECURSIVE Pow2(_)
Pow2(n) ==
    IF n = 0 THEN <<1>>
    ELSE IF n % 2 = 1 THEN BigAdd(Pow2(n - 1), Pow2(n - 1))
    ELSE LET h == Pow2(n \div 2) IN BigMul(h, h)

\* the width of ratePerSecond, of start and end, and of the EVM word
RateBits == 128
TimeBits == 64
\* an EVM word as narrow as ratePerSecond
NarrowWordBits == 128
WordBits == 256

\* type(uintN).max + 1 for the EVM word
WordLimit == Pow2(WordBits)
MaxRate == BigSub(Pow2(RateBits), <<1>>)
MaxUint64 == BigSub(Pow2(TimeBits), <<1>>)

\* Solidity 0.8 arithmetic on uint256: the exact result, or Panic(0x11)
Panic == [result |-> "panic", value |-> <<>>]
Ok(v) == [result |-> "ok", value |-> v]
CheckedMul(a, b) ==
    IF BigLess(BigMul(a, b), WordLimit) THEN Ok(BigMul(a, b)) ELSE Panic
CheckedAdd(a, b) ==
    IF BigLess(BigAdd(a, b), WordLimit) THEN Ok(BigAdd(a, b)) ELSE Panic
CheckedSub(a, b) == IF BigLess(a, b) THEN Panic ELSE Ok(BigSub(a, b))

\* the rates and the times of the wide calls: the smallest, those of a stream
\* of 10^27 a second over a year, and the largest their types hold
OneYear == BigOf(31536000)
TenTo27 == BigMul(BigOf(1000000000), BigMul(BigOf(1000000000), BigOf(1000000000)))
WideRates == {BigOf(1), TenTo27, MaxRate}
WideTimes == {BigOf(1), OneYear, MaxUint64}

\* getWithdrawable for a stream s in a block stamped timestamp, alreadyWithdrawn
\* being withdrawn[streamId]; owed is totalOwed
GetWithdrawableWide(s, timestamp, alreadyWithdrawn) ==
    IF BigLeq(timestamp, s.start) THEN [owed |-> Ok(<<>>), due |-> Ok(<<>>)]
    ELSE LET effectiveEnd == IF BigLess(timestamp, s.end) THEN timestamp ELSE s.end
             elapsed == CheckedSub(effectiveEnd, s.start)
             totalOwed == IF elapsed.result = "ok"
                          THEN CheckedMul(elapsed.value, s.ratePerSecond) ELSE Panic
         IN  IF totalOwed.result # "ok" THEN [owed |-> totalOwed, due |-> Panic]
             ELSE IF BigLeq(totalOwed.value, alreadyWithdrawn)
             THEN [owed |-> totalOwed, due |-> Ok(<<>>)]
             ELSE [owed |-> totalOwed,
                   due |-> CheckedSub(totalOwed.value, alreadyWithdrawn)]

\* withdraw for that stream by a payer with balance and allowance: how the call
\* ends and what withdrawn[streamId] holds after it
WithdrawWide(s, timestamp, alreadyWithdrawn) ==
    LET w == GetWithdrawableWide(s, timestamp, alreadyWithdrawn)
        total == CheckedAdd(alreadyWithdrawn, w.due.value)
    IN  IF w.due.result # "ok"
        THEN [result |-> "panic", owed |-> w.owed, withdrawn |-> alreadyWithdrawn]
        ELSE IF w.due.value = <<>>
        THEN [result |-> "nothing to withdraw", owed |-> w.owed,
              withdrawn |-> alreadyWithdrawn]
        ELSE IF total.result # "ok"
        THEN [result |-> "panic", owed |-> w.owed, withdrawn |-> alreadyWithdrawn]
        ELSE [result |-> "ok", owed |-> w.owed, withdrawn |-> total.value]

\* a stream from 0 to end; sinceLast is the elapsed time at which the payee
\* last withdrew, when everything owed by then was taken
CallWithdrawWide(rate, end, timestamp, sinceLast) ==
    /\ NoCallYet
    /\ BigLeq(sinceLast, timestamp) /\ BigLeq(sinceLast, end)
    /\ LET s == [ratePerSecond |-> rate, start |-> <<>>, end |-> end]
       IN  call' = [fn |-> "withdraw", stream |-> s, timestamp |-> timestamp,
                    sinceLast |-> sinceLast,
                    result |-> WithdrawWide(s, timestamp, BigMul(rate, sinceLast))]
    /\ UNCHANGED <<chainVars, mgrVars, pureVars, engineVars, libVars>>

\* calculateStreamFlow on bigint operands, whose - and * are exact
CalculateStreamFlowWide(stream, currentTime) ==
    IF BigLess(currentTime, stream.start) THEN <<>>
    ELSE IF ~BigLess(currentTime, stream.end)
    THEN BigMul(stream.ratePerSecond, BigSub(stream.end, stream.start))
    ELSE BigMul(stream.ratePerSecond, BigSub(currentTime, stream.start))

CallCalculateStreamFlowWide(rate, end, currentTime) ==
    /\ NoCallYet
    /\ LET s == [ratePerSecond |-> rate, start |-> <<>>, end |-> end]
       IN  call' = [fn |-> "calculateStreamFlowWide", stream |-> s,
                    currentTime |-> currentTime,
                    result |-> CalculateStreamFlowWide(s, currentTime)]
    /\ UNCHANGED <<chainVars, mgrVars, pureVars, engineVars, libVars>>

\* streams and settled amounts handed to generateSettlementProof
SettlementStreams ==
    [from : {"alice"}, to : {"bob"}, ratePerSecond : {1, 2}, start : {0, 1},
     end : {2, 3}, total : {Undefined}, settled : {Undefined}]
SettledAmounts == 0..(2 * MaxSettled)

\* HybridProver.generateSettlementProof(stream, settledAmount, currentTime):
\* whether it throws, and the fields of the proof it returns otherwise
GenerateSettlementProof(stream, settledAmount, currentTime) ==
    LET timeElapsed == currentTime - stream.start
        expectedFlow == stream.ratePerSecond * timeElapsed
    IN  IF settledAmount > expectedFlow
        THEN [result |-> "Settled amount exceeds expected flow"]
        ELSE [result |-> "ok",
              publicSignals |-> <<expectedFlow, settledAmount, timeElapsed>>,
              timestamp |-> currentTime,
              verified |-> settledAmount <= expectedFlow,
              settlementAmount |-> settledAmount]

CallGenerateSettlementProof(stream, settledAmount, currentTime) ==
    /\ NoCallYet
    /\ call' = [fn |-> "generateSettlementProof", stream |-> stream,
                settledAmount |-> settledAmount, currentTime |-> currentTime,
                result |-> GenerateSettlementProof(stream, settledAmount, currentTime)]
    /\ UNCHANGED <<chainVars, mgrVars, pureVars, engineVars, libVars>>

\* generateQStreamProof(ratePerSecond, elapsedTime): the public signals
GenerateQStreamProof(ratePerSecond, elapsedTime) ==
    LET owed == ratePerSecond * elapsedTime
    IN  [ratePerSecond |-> ratePerSecond, elapsedTime |-> elapsedTime, owed |-> owed]

(***************************************************************************)
(* DualStateEngine                                                         *)
(***************************************************************************)
\* the blocks the DualStateEngine sees are stamped 1..MaxEngineTime
MaxEngineTime == 2

\* the owner given to the constructor
EngineOwner == "owner"
EngineUsers == {"owner", "carol", "dave"}
Keys == {"k1", "k2"}
\* bytes32(0), the value of an unwritten slot
ZeroBytes == "0x00"
StateValues == {"a", "b"}
\* uint8 indices a caller may pass
Indices == {0, 1, 2}

\* dualStates[key] of a key nothing was written to
EmptyDualState == [state0 |-> ZeroBytes, state1 |-> ZeroBytes, createdAt |-> 0]

EngineOp(op, sender, key, index, result, value) ==
    [op |-> op, sender |-> sender, key |-> key, index |-> index,
     result |-> result, value |-> value]

\* the state after deployment. The deployment block, like every block, carries
\* a positive timestamp.
InitEngine ==
    /\ dualStates = [k \in Keys |-> EmptyDualState]
    /\ controllers = [a \in EngineUsers |-> FALSE]
    /\ engineOp = EngineOp("deploy", EngineOwner, "none", 0, "ok", <<>>)
    /\ blockTime = 1
    /\ lastSet = [k \in Keys |-> Undefined]

\* modifier onlyController
OnlyController(sender) == sender = EngineOwner \/ controllers[sender]

\* setController(controller, allowed), sent by sender
SetController(sender, controller, allowed) ==
    /\ IF sender = EngineOwner
       THEN /\ controllers' = [controllers EXCEPT ![controller] = allowed]
            /\ engineOp' = EngineOp("setController", sender, "none", 0, "ok", <<>>)
       ELSE /\ UNCHANGED controllers
            /\ engineOp' = EngineOp("setController", sender, "none", 0,
                                    "OwnableUnauthorizedAccount", <<>>)
    /\ UNCHANGED <<dualStates, blockTime, lastSet, chainVars, mgrVars, pureVars, sdkVars, libVars>>

\* setDualState(key, state0, state1), sent by sender
SetDualState(sender, key, state0, state1) ==
    /\ IF OnlyController(sender)
       THEN /\ dualStates' = [dualStates EXCEPT ![key] =
                    [state0 |-> state0, state1 |-> state1, createdAt |-> blockTime]]
            /\ lastSet' = [lastSet EXCEPT ![key] = Some(<<state0, state1>>)]
            /\ engineOp' = EngineOp("setDualState", sender, key, 0, "ok", <<state0, state1>>)
       ELSE /\ UNCHANGED <<dualStates, lastSet>>
            /\ engineOp' = EngineOp("setDualState", sender, key, 0, "not controller",
                                    <<state0, state1>>)
    /\ UNCHANGED <<controllers, blockTime, chainVars, mgrVars, pureVars, sdkVars, libVars>>

\* finalizeState that answers with the state of the other index
FinalizeStateSwapped(key, chosenStateIndex) ==
    LET ds == dualStates[key]
    IN  IF ~(chosenStateIndex < 2) THEN [result |-> "invalid index", value |-> <<>>]
        ELSE IF ~(ds.createdAt # 0) THEN [result |-> "dual state missing", value |-> <<>>]
        ELSE [result |-> "ok",
              value |-> <<IF chosenStateIndex = 0 THEN ds.state1 ELSE ds.state0>>]

\* finalizeState(key, chosenStateIndex): how the call ends and what it returns
FinalizeStateCall(key, chosenStateIndex) ==
    LET ds == dualStates[key]
    IN  IF ~(chosenStateIndex < 2) THEN [result |-> "invalid index", value |-> <<>>]
        ELSE IF ~(ds.createdAt # 0) THEN [result |-> "dual state missing", value |-> <<>>]
        ELSE [result |-> "ok",
              value |-> <<IF chosenStateIndex = 0 THEN ds.state0 ELSE ds.state1>>]

\* finalizeState(key, chosenStateIndex), a view called by anyone
FinalizeState(sender, key, chosenStateIndex) ==
    /\ engineOp' = EngineOp("finalizeState", sender, key, chosenStateIndex,
                            FinalizeStateCall(key, chosenStateIndex).result,
                            FinalizeStateCall(key, chosenStateIndex).value)
    /\ UNCHANGED <<dualStates, controllers, blockTime, lastSet,
                   chainVars, mgrVars, pureVars, sdkVars, libVars>>

\* getDualState(key), a view called by anyone
GetDualState(sender, key) ==
    /\ engineOp' = EngineOp("getDualState", sender, key, 0, "ok",
                            <<dualStates[key].state0, dualStates[key].state1>>)
    /\ UNCHANGED <<dualStates, controllers, blockTime, lastSet,
                   chainVars, mgrVars, pureVars, sdkVars, libVars>>

\* a later block is mined
EngineTick ==
    /\ blockTime < MaxEngineTime
    /\ blockTime' = blockTime + 1
    /\ UNCHANGED <<dualStates, controllers, engineOp, lastSet,
                   chainVars, mgrVars, pureVars, sdkVars, libVars>>

(***************************************************************************)
(* withRetry.  retry holds the locals of the one call a behaviour makes;   *)
(* retryEnv counts the invocations of fn and lists the waits and how the   *)
(* attempts ended.                                                         *)
(***************************************************************************)
\* options.maxAttempts is at most MaxRetryAttempts
MaxRetryAttempts == 3

RetryDelays == {1, 2}
RetryMultipliers == {1, 2}
\* what fn resolves with
RetryValues == {"v1", "v2"}
\* what fn rejects with: Error objects, and a value that is not an Error
Thrown == {[isError |-> TRUE, message |-> "e1"], [isError |-> TRUE, message |-> "e2"],
           [isError |-> FALSE, message |-> "oops"]}
\* what the timer of Promise.race rejects with
OperationTimeout == [isError |-> TRUE, message |-> "Operation timeout"]
RetryExhausted == [isError |-> TRUE, message |-> "Retry exhausted"]

\* error instanceof Error ? error : new Error(String(error))
ToError(error) == IF error.isError THEN error ELSE [isError |-> TRUE, message |-> error.message]

InitRetry ==
    /\ retry = [pc |-> "new"]
    /\ retryEnv = [calls |-> 0, waits |-> <<>>, outcomes |-> <<>>]

\* the loop going round once more than maxAttempts
LoopContinuesOnceMore(attempt, maxAttempts) == attempt <= maxAttempts + 1

\* for (...; attempt <= config.maxAttempts; ...)
LoopContinues(attempt, maxAttempts) == attempt <= maxAttempts

\* the loop is at its condition with the given locals: fn is invoked for the
\* next attempt, or the loop is left and lastError thrown
LoopHead(config, attempt, delay, lastError) ==
    IF LoopContinues(attempt, config.maxAttempts)
    THEN [invoked |-> 1,
          retry |-> [pc |-> "attempt", config |-> config, attempt |-> attempt,
                     delay |-> delay, lastError |-> lastError]]
    ELSE [invoked |-> 0,
          retry |-> [pc |-> "thrown", config |-> config, attempt |-> attempt,
                     delay |-> delay, lastError |-> lastError,
                     error |-> IF lastError = Undefined THEN RetryExhausted
                               ELSE ValueOf(lastError)]]

\* withRetry(fn, {maxAttempts, delayMs, backoffMultiplier}) is called
RetryCall(maxAttempts, delayMs, backoffMultiplier) ==
    /\ retry.pc = "new"
    /\ LET head == LoopHead([maxAttempts |-> maxAttempts, delayMs |-> delayMs,
                             backoffMultiplier |-> backoffMultiplier],
                            1, delayMs, Undefined)
       IN  /\ retry' = head.retry
           /\ retryEnv' = [retryEnv EXCEPT !.calls = @ + head.invoked]
    /\ UNCHANGED <<chainVars, coreVars, reVars, breakerVars, bulkVars, cacheVars>>

\* fn resolves before the timer: withRetry returns its value
AttemptResolves(value) ==
    /\ retry.pc = "attempt"
    /\ retry' = [pc |-> "returned", config |-> retry.config, attempt |-> retry.attempt,
                 delay |-> retry.delay, lastError |-> retry.lastError, value |-> value]
    /\ retryEnv' = [retryEnv EXCEPT !.outcomes = Append(@, [ok |-> TRUE, value |-> value])]
    /\ UNCHANGED <<chainVars, coreVars, reVars, breakerVars, bulkVars, cacheVars>>

\* fn rejects, or the timer does first: the catch block, and when no wait
\* follows, attempt++ and the loop condition
AttemptRejects(error) ==
    /\ retry.pc = "attempt"
    /\ LET failed == [retryEnv EXCEPT
                         !.outcomes = Append(@, [ok |-> FALSE, error |-> error])]
           head == LoopHead(retry.config, retry.attempt + 1, retry.delay,
                            Some(ToError(error)))
       IN  IF retry.attempt < retry.config.maxAttempts
           THEN /\ retry' = [retry EXCEPT !.pc = "waiting",
                                          !.lastError = Some(ToError(error))]
                /\ retryEnv' = failed
           ELSE /\ retry' = head.retry
                /\ retryEnv' = [failed EXCEPT !.calls = @ + head.invoked]
    /\ UNCHANGED <<chainVars, coreVars, reVars, breakerVars, bulkVars, cacheVars>>

\* the timer of the wait fires: delay *= backoffMultiplier, attempt++ and the
\* loop condition
WaitDone ==
    /\ retry.pc = "waiting"
    /\ LET head == LoopHead(retry.config, retry.attempt + 1,
                            retry.delay * retry.config.backoffMultiplier,
                            retry.lastError)
       IN  /\ retry' = head.retry
           /\ retryEnv' = [retryEnv EXCEPT !.waits = Append(@, retry.delay),
                                           !.calls = @ + head.invoked]
    /\ UNCHANGED <<chainVars, coreVars, reVars, breakerVars, bulkVars, cacheVars>>

(***************************************************************************)
(* CircuitBreaker.  breaker holds the fields of one object; breakerEnv the *)
(* clock, the calls of execute whose fn has not settled yet, and what has  *)
(* happened to the object so far.                                          *)
(***************************************************************************)
\* Date.now() runs from 1 to MaxBreakerTime
MaxBreakerTime == 4
\* calls of execute waiting for fn at the same time
MaxInFlight == 2

CLOSED == "closed"
OPEN == "open"
HALF_OPEN == "half_open"

FailureThresholds == {1, 2}
SuccessThresholds == {1, 2}
ResetTimeouts == {1}

InitBreaker ==
    /\ breaker = [pc |-> "new"]
    /\ breakerEnv = [now |-> 1, inFlight |-> 0, event |-> "none", streak |-> 0,
                     lastFailureAt |-> Undefined, halfOpenSuccesses |-> 0]

\* new CircuitBreaker({failureThreshold, successThreshold, resetTimeoutMs})
NewBreaker(failureThreshold, successThreshold, resetTimeoutMs) ==
    /\ breaker.pc = "new"
    /\ breaker' = [pc |-> "live",
                   options |-> [failureThreshold |-> failureThreshold,
                                successThreshold |-> successThreshold,
                                resetTimeoutMs |-> resetTimeoutMs],
                   state |-> CLOSED, failureCount |-> 0, successCount |-> 0,
                   lastFailureTime |-> 0]
    /\ breakerEnv' = [breakerEnv EXCEPT !.event = "new"]
    /\ UNCHANGED <<chainVars, coreVars, reVars, retryVars, bulkVars, cacheVars>>

\* onSuccess that leaves failureCount as it is
OnSuccessKeepsCount(b) ==
    IF b.state = HALF_OPEN
    THEN LET counted == [b EXCEPT !.successCount = @ + 1]
         IN  IF counted.successCount >= b.options.successThreshold
             THEN [counted EXCEPT !.state = CLOSED]
             ELSE counted
    ELSE b

\* onSuccess()
OnSuccess(b) ==
    LET cleared == [b EXCEPT !.failureCount = 0]
    IN  IF cleared.state = HALF_OPEN
        THEN LET counted == [cleared EXCEPT !.successCount = @ + 1]
             IN  IF counted.successCount >= b.options.successThreshold
                 THEN [counted EXCEPT !.state = CLOSED]
                 ELSE counted
        ELSE cleared

\* onFailure(), Date.now() being time
OnFailure(b, time) ==
    LET counted == [b EXCEPT !.failureCount = @ + 1, !.lastFailureTime = time]
    IN  IF counted.failureCount >= b.options.failureThreshold
        THEN [counted EXCEPT !.state = OPEN]
        ELSE counted

\* execute(fn) up to await fn(): the breaker lets the call through, moving from
\* OPEN to HALF_OPEN when the timeout has passed, or throws
ExecuteBegin ==
    /\ breaker.pc = "live"
    /\ IF breaker.state = OPEN
          /\ ~(breakerEnv.now - breaker.lastFailureTime > breaker.options.resetTimeoutMs)
       THEN /\ UNCHANGED breaker
            /\ breakerEnv' = [breakerEnv EXCEPT !.event = "Circuit breaker is OPEN"]
       ELSE /\ breakerEnv.inFlight < MaxInFlight
            /\ breaker' = IF breaker.state = OPEN
                          THEN [breaker EXCEPT !.state = HALF_OPEN, !.successCount = 0]
                          ELSE breaker
            /\ breakerEnv' = [breakerEnv EXCEPT
                   !.event = "invoked", !.inFlight = @ + 1,
                   !.halfOpenSuccesses = IF breaker.state = OPEN THEN 0 ELSE @]
    /\ UNCHANGED <<chainVars, coreVars, reVars, retryVars, bulkVars, cacheVars>>

\* fn of a call in progress resolves: onSuccess() and execute returns
FnResolves ==
    /\ breaker.pc = "live"
    /\ breakerEnv.inFlight > 0
    /\ breaker' = OnSuccess(breaker)
    /\ breakerEnv' = [breakerEnv EXCEPT
           !.event = "success", !.inFlight = @ - 1, !.streak = 0,
           !.halfOpenSuccesses = IF breaker.state = HALF_OPEN THEN @ + 1 ELSE @]
    /\ UNCHANGED <<chainVars, coreVars, reVars, retryVars, bulkVars, cacheVars>>

\* fn of a call in progress rejects: onFailure() and execute rethrows
FnRejects ==
    /\ breaker.pc = "live"
    /\ breakerEnv.inFlight > 0
    /\ breaker' = OnFailure(breaker, breakerEnv.now)
    /\ breakerEnv' = [breakerEnv EXCEPT
           !.event = "failure", !.inFlight = @ - 1, !.streak = @ + 1,
           !.lastFailureAt = Some(breakerEnv.now), !.halfOpenSuccesses = 0]
    /\ UNCHANGED <<chainVars, coreVars, reVars, retryVars, bulkVars, cacheVars>>

\* reset()
BreakerReset ==
    /\ breaker.pc = "live"
    /\ breaker' = [breaker EXCEPT !.state = CLOSED, !.failureCount = 0, !.successCount = 0]
    /\ breakerEnv' = [breakerEnv EXCEPT !.event = "reset", !.streak = 0,
                                        !.halfOpenSuccesses = 0]
    /\ UNCHANGED <<chainVars, coreVars, reVars, retryVars, bulkVars, cacheVars>>

\* time passes
BreakerTick ==
    /\ breakerEnv.now < MaxBreakerTime
    /\ breakerEnv' = [breakerEnv EXCEPT !.now = @ + 1, !.event = "tick"]
    /\ UNCHANGED <<breaker, chainVars, coreVars, reVars, retryVars, bulkVars, cacheVars>>

(***************************************************************************)
(* BulkOperationHandler.executeMany.  bulk holds the locals of one call:   *)
(* queue, active (a promise is named by the index of its item), results    *)
(* and errors; bulkEnv holds the calls of fn and the state of each         *)
(* promise.  fn(item) yields the item: the item at index i is i.           *)
(***************************************************************************)
\* items.length is at most MaxItems
MaxItems == 3

MaxConcurrents == {1, 2}

ItemIndices == 0..(MaxItems - 1)

InitBulk ==
    /\ bulk = [pc |-> "new"]
    /\ bulkEnv = [invoked |-> [i \in ItemIndices |-> 0], running |-> {},
                  outcome |-> [i \in ItemIndices |-> "none"],
                  promise |-> [i \in ItemIndices |-> "none"]]

\* the inner while loop: shift an entry, start its promise (which calls fn at
\* once) and add it to active, while active.size < maxConcurrent
RECURSIVE FillActive(_)
FillActive(be) ==
    IF Cardinality(be.b.active) < be.b.options.maxConcurrent /\ be.b.queue # <<>>
    THEN LET index == Head(be.b.queue)
         IN  FillActive([b |-> [be.b EXCEPT !.queue = Tail(@), !.active = @ \cup {index}],
                         e |-> [be.e EXCEPT !.invoked[index] = @ + 1,
                                            !.running = @ \cup {index},
                                            !.promise[index] = "awaiting"]])
    ELSE be

\* the outer while loop from its test to the next await or to the return
MainLoop(be) ==
    IF be.b.queue # <<>> \/ be.b.active # {}
    THEN LET filled == FillActive(be)
         IN  [filled EXCEPT !.b.pc = IF filled.b.active # {} THEN "awaiting" ELSE "spinning",
                            !.b.woke = "no"]
    ELSE [be EXCEPT !.b.pc = "returned"]

\* executeMany(items, fn, {maxConcurrent, continueOnError, timeout}) up to its
\* first await
ExecuteMany(n, maxConcurrent, continueOnError, timeout) ==
    /\ bulk.pc = "new"
    /\ LET started == MainLoop(
               [b |-> [pc |-> "loop",
                       options |-> [maxConcurrent |-> maxConcurrent,
                                    continueOnError |-> continueOnError,
                                    timeout |-> timeout],
                       items |-> n,
                       queue |-> [k \in 1..n |-> k - 1],
                       active |-> {}, results |-> {}, errors |-> {}, woke |-> "no"],
                e |-> bulkEnv])
       IN  bulk' = started.b /\ bulkEnv' = started.e
    /\ UNCHANGED <<chainVars, coreVars, reVars, retryVars, breakerVars, cacheVars>>

\* the catch block of a promise
Catch(b, index, message) ==
    [b EXCEPT !.errors = {e \in @ : e.index # index} \cup {[index |-> index, message |-> message]}]

\* what the promise is after the catch block
Caught == IF bulk.options.continueOnError THEN "done" ELSE "failed"

\* fn(item) resolves; the promise still waiting for it stores the result
BulkFnResolves(index) ==
    /\ bulk.pc # "new"
    /\ index \in bulkEnv.running
    /\ IF bulkEnv.promise[index] = "awaiting"
       THEN /\ bulk' = [bulk EXCEPT !.results = {r \in @ : r.index # index}
                                        \cup {[index |-> index, value |-> index]}]
            /\ bulkEnv' = [bulkEnv EXCEPT !.running = @ \ {index},
                                          !.outcome[index] = "resolved",
                                          !.promise[index] = "done"]
       ELSE /\ UNCHANGED bulk
            /\ bulkEnv' = [bulkEnv EXCEPT !.running = @ \ {index},
                                          !.outcome[index] = "resolved"]
    /\ UNCHANGED <<chainVars, coreVars, reVars, retryVars, breakerVars, cacheVars>>

\* fn(item) rejects; the promise still waiting for it stores the error
BulkFnRejects(index) ==
    /\ bulk.pc # "new"
    /\ index \in bulkEnv.running
    /\ IF bulkEnv.promise[index] = "awaiting"
       THEN /\ bulk' = Catch(bulk, index, "rejected")
            /\ bulkEnv' = [bulkEnv EXCEPT !.running = @ \ {index},
                                          !.outcome[index] = "rejected",
                                          !.promise[index] = Caught]
       ELSE /\ UNCHANGED bulk
            /\ bulkEnv' = [bulkEnv EXCEPT !.running = @ \ {index},
                                          !.outcome[index] = "rejected"]
    /\ UNCHANGED <<chainVars, coreVars, reVars, retryVars, breakerVars, cacheVars>>

\* the timer of a promise fires before fn(item) has settled: the race rejects
\* with Error("Timeout"), fn(item) goes on
TimeoutFires(index) ==
    /\ bulk.pc # "new"
    /\ bulk.options.timeout
    /\ bulkEnv.promise[index] = "awaiting"
    /\ bulk' = Catch(bulk, index, "Timeout")
    /\ bulkEnv' = [bulkEnv EXCEPT !.promise[index] = Caught]
    /\ UNCHANGED <<chainVars, coreVars, reVars, retryVars, breakerVars, cacheVars>>

\* .finally(() => active.delete(promise)), after which the promise is
\* settled and a race waiting for it is settled the same way, if it was not
Finally(index) ==
    /\ bulk.pc # "new"
    /\ bulkEnv.promise[index] \in {"done", "failed"}
    /\ bulk' = [bulk EXCEPT
           !.active = @ \ {index},
           !.woke = IF @ = "no"
                    THEN (IF bulkEnv.promise[index] = "done" THEN "resolved" ELSE "rejected")
                    ELSE @]
    /\ bulkEnv' = [bulkEnv EXCEPT !.promise[index] = "settled"]
    /\ UNCHANGED <<chainVars, coreVars, reVars, retryVars, breakerVars, cacheVars>>

\* await Promise.race(active) is over: the loop goes on, or executeMany
\* rejects with the error of the race
MainResumes ==
    /\ bulk.pc = "awaiting"
    /\ bulk.woke # "no"
    /\ IF bulk.woke = "rejected"
       THEN bulk' = [bulk EXCEPT !.pc = "thrown"] /\ UNCHANGED bulkEnv
       ELSE LET next == MainLoop([b |-> bulk, e |-> bulkEnv])
            IN  bulk' = next.b /\ bulkEnv' = next.e
    /\ UNCHANGED <<chainVars, coreVars, reVars, retryVars, breakerVars, cacheVars>>

(***************************************************************************)
(* Cache with the LRU eviction policy.  cache.entries is the Map in its    *)
(* insertion order; cacheEnv has the clock and the keys held in the order  *)
(* of their most recent get or set, the least recently used first.         *)
(***************************************************************************)
\* Date.now() runs from 1 to MaxCacheTime
MaxCacheTime == 3
\* get counts the hits of an entry up to MaxHits
MaxHits == 2

CacheKeys == {"", "a", "b"}
CacheValue == "v"
MaxSizes == {1, 2}
DefaultTtls == {2}

\* larger than every createdAt
Infinity == MaxCacheTime + 1

InitCache ==
    /\ cache = [pc |-> "new"]
    /\ cacheEnv = [now |-> 1, recency |-> <<>>, event |-> "none",
                   evicted |-> Undefined]

\* new Cache(maxSize, defaultTtlMs, EvictionPolicy.LRU)
NewCache(maxSize, defaultTtlMs) ==
    /\ cache.pc = "new"
    /\ cache' = [pc |-> "live", maxSize |-> maxSize, defaultTtlMs |-> defaultTtlMs,
                 entries |-> <<>>]
    /\ cacheEnv' = [cacheEnv EXCEPT !.event = "new"]
    /\ UNCHANGED <<chainVars, coreVars, reVars, retryVars, breakerVars, bulkVars>>

HasKey(entries, key) == \E k \in 1..Len(entries) : entries[k].key = key

EntryOf(entries, key) == entries[CHOOSE k \in 1..Len(entries) : entries[k].key = key]

WithoutKey(entries, key) == SelectSeq(entries, LAMBDA e : e.key # key)

\* a for loop of evict over the entries from the k-th on: found has minTime
\* and keyToEvict, and the first loop looks at entries with hits = 0 only
RECURSIVE EvictScan(_, _, _, _)
EvictScan(entries, k, found, unhitOnly) ==
    IF k > Len(entries) THEN found
    ELSE LET entry == entries[k]
         IN  IF (unhitOnly => entry.hits = 0) /\ entry.createdAt < found.minTime
             THEN EvictScan(entries, k + 1,
                            [minTime |-> entry.createdAt, keyToEvict |-> Some(entry.key)],
                            unhitOnly)
             ELSE EvictScan(entries, k + 1, found, unhitOnly)

\* !keyToEvict
NoKeyToEvict(found) == found.keyToEvict = Undefined \/ ValueOf(found.keyToEvict) = ""

\* the key evict() picks under EvictionPolicy.LRU
KeyToEvict(entries) ==
    LET first == EvictScan(entries, 1, [minTime |-> Infinity, keyToEvict |-> Undefined], TRUE)
    IN  IF NoKeyToEvict(first)
        THEN EvictScan(entries, 1, first, FALSE).keyToEvict
        ELSE first.keyToEvict

\* evict()
Evict(entries) ==
    LET picked == KeyToEvict(entries)
    IN  IF picked # Undefined THEN WithoutKey(entries, ValueOf(picked)) ELSE entries

\* the keys in the order of their last use, key being used now
Used(recency, key) == Append(SelectSeq(recency, LAMBDA k : k # key), key)

Unused(recency, key) == SelectSeq(recency, LAMBDA k : k # key)

Quiet(event) == [cacheEnv EXCEPT !.event = event, !.evicted = Undefined]

\* get(key)
CacheGet(key) ==
    /\ cache.pc = "live"
    /\ IF ~HasKey(cache.entries, key)
       THEN UNCHANGED cache /\ cacheEnv' = Quiet("miss")
       ELSE LET entry == EntryOf(cache.entries, key)
            IN  IF entry.expiresAt < cacheEnv.now
                THEN /\ cache' = [cache EXCEPT !.entries = WithoutKey(@, key)]
                     /\ cacheEnv' = [Quiet("expired") EXCEPT !.recency = Unused(@, key)]
                ELSE /\ entry.hits < MaxHits
                     /\ cache' = [cache EXCEPT !.entries =
                            [k \in 1..Len(@) |->
                                IF @[k].key = key THEN [@[k] EXCEPT !.hits = @ + 1] ELSE @[k]]]
                     /\ cacheEnv' = [Quiet("hit") EXCEPT !.recency = Used(@, key)]
    /\ UNCHANGED <<chainVars, coreVars, reVars, retryVars, breakerVars, bulkVars>>

\* set(key, value) with the default ttl
CacheSet(key, value) ==
    /\ cache.pc = "live"
    /\ LET expiresAt == cacheEnv.now + cache.defaultTtlMs
       IN  IF HasKey(cache.entries, key)
           THEN /\ cache' = [cache EXCEPT !.entries =
                       [k \in 1..Len(@) |->
                           IF @[k].key = key
                           THEN [@[k] EXCEPT !.value = value, !.expiresAt = expiresAt,
                                             !.hits = 0]
                           ELSE @[k]]]
                /\ cacheEnv' = [Quiet("update") EXCEPT !.recency = Used(@, key)]
           ELSE LET full == Len(cache.entries) >= cache.maxSize
                    kept == IF full THEN Evict(cache.entries) ELSE cache.entries
                    picked == IF full THEN KeyToEvict(cache.entries) ELSE Undefined
                    remembered == IF picked # Undefined
                                  THEN Unused(cacheEnv.recency, ValueOf(picked))
                                  ELSE cacheEnv.recency
                IN  /\ cache' = [cache EXCEPT !.entries =
                           Append(kept, [key |-> key, value |-> value,
                                         expiresAt |-> expiresAt, hits |-> 0,
                                         createdAt |-> cacheEnv.now])]
                    /\ cacheEnv' = [cacheEnv EXCEPT
                           !.event = IF full THEN "insert into full" ELSE "insert",
                           !.evicted = picked,
                           !.recency = Used(remembered, key)]
    /\ UNCHANGED <<chainVars, coreVars, reVars, retryVars, breakerVars, bulkVars>>

\* delete(key)
CacheDelete(key) ==
    /\ cache.pc = "live"
    /\ cache' = [cache EXCEPT !.entries = WithoutKey(@, key)]
    /\ cacheEnv' = [Quiet("delete") EXCEPT !.recency = Unused(@, key)]
    /\ UNCHANGED <<chainVars, coreVars, reVars, retryVars, breakerVars, bulkVars>>

\* clear()
CacheClear ==
    /\ cache.pc = "live"
    /\ cache' = [cache EXCEPT !.entries = <<>>]
    /\ cacheEnv' = [Quiet("clear") EXCEPT !.recency = <<>>]
    /\ UNCHANGED <<chainVars, coreVars, reVars, retryVars, breakerVars, bulkVars>>

\* the callback of startCleanup drops the expired entries
CacheCleanup ==
    /\ cache.pc = "live"
    /\ LET fresh == SelectSeq(cache.entries, LAMBDA e : ~(e.expiresAt < cacheEnv.now))
       IN  /\ cache' = [cache EXCEPT !.entries = fresh]
           /\ cacheEnv' = [Quiet("cleanup") EXCEPT !.recency =
                  SelectSeq(@, LAMBDA k : HasKey(fresh, k))]
    /\ UNCHANGED <<chainVars, coreVars, reVars, retryVars, breakerVars, bulkVars>>

\* time passes
CacheTick ==
    /\ cacheEnv.now < MaxCacheTime
    /\ cacheEnv' = [Quiet("tick") EXCEPT !.now = @ + 1]
    /\ UNCHANGED <<cache, chainVars, coreVars, reVars, retryVars, breakerVars, bulkVars>>

(***************************************************************************)
(* Specifications                                                          *)
(***************************************************************************)
InitRe == stack = <<>>

Init ==
    /\ InitChain /\ InitMgr /\ InitPure /\ InitSdk /\ InitEngine
    /\ InitRe /\ InitRetry /\ InitBreaker /\ InitBulk /\ InitCache

Next ==
    \/ \E sender \in Payers, to \in Recipients, r \in Rates, w \in Windows :
          CreateStream(sender, to, r, w[1], w[2])
    \/ \E id \in CallIds, returnsFalse \in BOOLEAN : Withdraw(id, returnsFalse)
    \/ \E amount \in {MaxSupply} : Mint("alice", amount)
    \/ \E amount \in {0, MaxSupply} : Approve("alice", amount)
    \/ Tick

Spec == Init /\ [][Next]_vars

NextMgr ==
    \/ \E id \in MgrIds, s \in MgrStreams : MgrCreateStream(id, s)
    \/ \E id \in MgrIds, status \in StreamStatus : UpdateStreamStatus(id, status)
    \/ \E id \in MgrIds, amount \in 0..MaxSettled : UpdateSettlement(id, amount)
    \/ \E id \in MgrIds : DeleteStream(id)

SpecMgr == Init /\ [][NextMgr]_vars

NextPure ==
    \/ \E f \in StreamStatus, t \in StreamStatus : CallValidateStateTransition(f, t)
    \/ \E s \in PureStreams, t \in Times : CallGetStreamStatus(s, t)

SpecPure == Init /\ [][NextPure]_vars

\* transactions do not overlap: accounts act when no call is in progress
NextReentrant ==
    \/ \E to \in Recipients, rate \in Rates, w \in Windows :
          stack = <<>> /\ streams = <<>> /\ CreateStream("alice", to, rate, w[1], w[2])
    \/ stack = <<>> /\ Mint("alice", MaxSupply)
    \/ \E amount \in {0, MaxSupply} : stack = <<>> /\ Approve("alice", amount)
    \/ stack = <<>> /\ Tick
    \/ \E id \in {0, 1} : WithdrawEnter(id)
    \/ TokenMove
    \/ TokenFail
    \/ TokenReturn

SpecReentrant == Init /\ [][NextReentrant]_vars

NextRetry ==
    \/ \E m \in 0..MaxRetryAttempts, d \in RetryDelays, b \in RetryMultipliers :
          RetryCall(m, d, b)
    \/ \E v \in RetryValues : AttemptResolves(v)
    \/ \E e \in Thrown \cup {OperationTimeout} : AttemptRejects(e)
    \/ WaitDone

\* every attempt settles or is timed out, and every timer fires
SpecRetry == Init /\ [][NextRetry]_vars /\ WF_vars(NextRetry)

NextBreaker ==
    \/ \E f \in FailureThresholds, k \in SuccessThresholds, r \in ResetTimeouts :
          NewBreaker(f, k, r)
    \/ ExecuteBegin
    \/ FnResolves
    \/ FnRejects
    \/ BreakerReset
    \/ BreakerTick

SpecBreaker == Init /\ [][NextBreaker]_vars

NextBulk ==
    \/ \E n \in 0..MaxItems, m \in MaxConcurrents, c \in BOOLEAN, t \in BOOLEAN :
          ExecuteMany(n, m, c, t)
    \/ \E i \in ItemIndices : BulkFnResolves(i)
    \/ \E i \in ItemIndices : BulkFnRejects(i)
    \/ \E i \in ItemIndices : TimeoutFires(i)
    \/ \E i \in ItemIndices : Finally(i)
    \/ MainResumes

SpecBulk == Init /\ [][NextBulk]_vars

NextCache ==
    \/ \E m \in MaxSizes, t \in DefaultTtls : NewCache(m, t)
    \/ \E key \in CacheKeys : CacheGet(key)
    \/ \E key \in CacheKeys : CacheSet(key, CacheValue)
    \/ \E key \in CacheKeys : CacheDelete(key)
    \/ CacheClear
    \/ CacheCleanup
    \/ CacheTick

SpecCache == Init /\ [][NextCache]_vars

NextSdk ==
    \/ \E s \in FlowStreams, t \in Times : CallCalculateStreamFlow(s, t)
    \/ \E s \in ValidateStreams : CallValidateStream(s)
    \/ \E b \in Batches : CallValidateBatch(b)
    \/ \E b \in ShortBatches : CallCalculateBatchValue(b)
    \/ \E b \in ShortBatches : CallGroupBySender(b)
    \/ \E b \in ShortBatches : CallGroupByReceiver(b)
    \/ \E rate \in WideRates, end \in WideTimes, t \in WideTimes,
          last \in WideTimes \cup {<<>>} : CallWithdrawWide(rate, end, t, last)
    \/ \E rate \in WideRates, end \in WideTimes, t \in WideTimes :
          CallCalculateStreamFlowWide(rate, end, t)
    \/ \E stream \in SettlementStreams, amount \in SettledAmounts, t \in Times :
          CallGenerateSettlementProof(stream, amount, t)

SpecSdk == Init /\ [][NextSdk]_vars

NextEngine ==
    \/ \E sender \in EngineUsers, c \in {"carol", "dave"}, allowed \in BOOLEAN :
          SetController(sender, c, allowed)
    \/ \E sender \in EngineUsers, k \in Keys, s0 \in StateValues, s1 \in StateValues :
          SetDualState(sender, k, s0, s1)
    \/ \E sender \in {"dave"}, k \in Keys, i \in Indices : FinalizeState(sender, k, i)
    \/ \E sender \in {"dave"}, k \in Keys : GetDualState(sender, k)
    \/ EngineTick

SpecEngine == Init /\ [][NextEngine]_vars

(***************************************************************************)
(* Claims about QStreamPayments, under Spec                                *)
(***************************************************************************)
ExistingIds == 0..(Len(streams) - 1)

\* C1: whatever createStream and withdraw calls are made at non-decreasing
\* block timestamps, withdrawn[id] never decreases and never exceeds the
\* stream's total capacity ratePerSecond * (end - start).
C1_SettledMonotoneAndBounded ==
    /\ [](\A id \in ExistingIds : withdrawn[id] <= TotalCapacity(streams[id + 1]))
    /\ [][\A id \in StreamIds : withdrawn'[id] >= withdrawn[id]]_vars

\* a withdraw made after the stream's end has just settled the whole capacity
C1_Witness ==
    /\ lastOp.op = "withdraw" /\ lastOp.result = "ok"
    /\ now > streams[lastOp.id + 1].end
    /\ withdrawn[lastOp.id] = TotalCapacity(streams[lastOp.id + 1])

\* C2: conservation. For every stream, every settled amount reached through
\* withdraws and every time the chain can observe it at (the current block
\* timestamp or a later one), getWithdrawable + withdrawn[id] equals the
\* amount flowed by that time.
C2_Conservation ==
    \A id \in ExistingIds : \A t \in now..MaxTime :
        GetWithdrawable(id, t) + withdrawn[id] = CalculateStreamFlow(streams[id + 1], t)

\* a stream that is partly settled and has more due
C2_Witness ==
    \E id \in ExistingIds : withdrawn[id] > 0 /\ GetWithdrawable(id, now) > 0

\* C3: a withdraw that fails, for whatever reason, leaves withdrawn, the
\* list of streams and every token balance and allowance as they were.
C3_FailedWithdrawChangesNothing ==
    [][(lastOp'.op = "withdraw" /\ lastOp'.result # "ok")
          => UNCHANGED <<withdrawn, streams, balances, allowance>>]_vars

\* a withdraw has failed in the token's transferFrom, after withdrawn[id]
\* was increased
C3_Witness ==
    /\ lastOp.op = "withdraw"
    /\ lastOp.result \in {"transfer failed", "token reverted"}

\* C4: right after a withdraw that succeeded, a second withdraw on the same
\* stream at the same block timestamp is rejected with "nothing to withdraw"
\* and changes neither withdrawn nor any token balance.
C4_SecondWithdrawNothingDue ==
    [][(lastOp.op = "withdraw" /\ lastOp.result = "ok"
            /\ lastOp'.op = "withdraw" /\ lastOp'.id = lastOp.id)
          => (lastOp'.result = "nothing to withdraw"
              /\ UNCHANGED <<withdrawn, balances>>)]_vars

\* the second withdraw has been made and rejected
C4_Witness ==
    /\ lastOp.op = "withdraw" /\ lastOp.again
    /\ lastOp.result = "nothing to withdraw"
    /\ withdrawn[lastOp.id] > 0

\* what is due at block.timestamp on a stream nothing was withdrawn from
DueNow(id) == streams[id + 1].ratePerSecond * (now - streams[id + 1].start)

\* a stream inside its window, nothing withdrawn, its payer able to pay
C5_Funded(id) ==
    /\ id \in ExistingIds
    /\ withdrawn[id] = 0
    /\ streams[id + 1].start < now /\ now < streams[id + 1].end
    /\ balances[streams[id + 1].from] >= DueNow(id)
    /\ allowance[streams[id + 1].from] >= DueNow(id)

C5_Pays(id) ==
    /\ GetWithdrawable(id, now) = DueNow(id)
    /\ lastOp'.result = "ok"
    /\ balances'[streams[id + 1].to] = balances[streams[id + 1].to] + DueNow(id)
    /\ balances'[streams[id + 1].from] = balances[streams[id + 1].from] - DueNow(id)
    /\ withdrawn'[id] = DueNow(id)

\* C5 as claimed: for a stream with no prior withdrawal whose payer has
\* sufficient balance and allowance, at start < t < end getWithdrawable is
\* ratePerSecond * (t - start) and a withdraw raises the payee's balance by
\* it, lowers the payer's by it and sets the settled amount to it.
C5_AsClaimed ==
    [][\A id \in StreamIds :
          (C5_Funded(id) /\ lastOp'.op = "withdraw" /\ lastOp'.id = id)
             => C5_Pays(id)]_vars

\* C5 as amended: the same, for a stream whose payee is not its payer.
C5_PaysExactlyWhatFlowed ==
    [][\A id \in StreamIds :
          (C5_Funded(id) /\ streams[id + 1].to # streams[id + 1].from
              /\ lastOp'.op = "withdraw" /\ lastOp'.id = id)
             => C5_Pays(id)]_vars

\* the first withdraw of a stream to another account, made inside its window
C5_Witness ==
    /\ lastOp.op = "withdraw" /\ lastOp.result = "ok"
    /\ streams[lastOp.id + 1].to # streams[lastOp.id + 1].from
    /\ streams[lastOp.id + 1].start < now /\ now < streams[lastOp.id + 1].end
    /\ withdrawn[lastOp.id] = DueNow(lastOp.id)
    /\ balances[streams[lastOp.id + 1].to] = DueNow(lastOp.id)

(***************************************************************************)
(* Claims about the StreamManager, under SpecMgr                           *)
(***************************************************************************)
\* the settled amount the manager records for a stream (0 when absent)
SettledOf(stream) == IF stream.settled = Undefined THEN 0 ELSE ValueOf(stream.settled)

\* C6: while a stream is paused, settling it fails and leaves the settled
\* amount unchanged.
C6_PausedStreamIsNotSettled ==
    [][\A id \in MgrIds :
          (id \in DOMAIN mgrStreams /\ mgrStreams[id].status = PAUSED
              /\ mgrOp'.op = "updateSettlement" /\ mgrOp'.id = id)
             => mgrStreams'[id].settled = mgrStreams[id].settled]_vars

\* C7: every status change of a tracked stream is one the state machine
\* allows, so SETTLED and CANCELLED are never left.
C7_StatusFollowsStateMachine ==
    [][\A id \in MgrIds :
          (id \in DOMAIN mgrStreams /\ id \in DOMAIN mgrStreams'
              /\ mgrStreams'[id].status # mgrStreams[id].status)
             => ValidateStateTransition(mgrStreams[id].status, mgrStreams'[id].status)]_vars

\* C8: the settled amount recorded for a tracked stream never decreases and
\* stays within 0 .. ratePerSecond * (end - start).
C8_ManagerSettledMonotoneAndBounded ==
    [][\A id \in MgrIds :
          /\ (id \in DOMAIN mgrStreams /\ id \in DOMAIN mgrStreams')
                => SettledOf(mgrStreams'[id]) >= SettledOf(mgrStreams[id])
          /\ id \in DOMAIN mgrStreams'
                => /\ 0 <= SettledOf(mgrStreams'[id])
                   /\ SettledOf(mgrStreams'[id]) <= TotalCapacity(mgrStreams'[id])]_vars

(***************************************************************************)
(* Claims about the pure functions, under SpecPure                         *)
(***************************************************************************)
\* the transitions the state machine allows
AllowedTransitions ==
    {<<ACTIVE, PAUSED>>, <<ACTIVE, SETTLED>>, <<ACTIVE, CANCELLED>>,
     <<PAUSED, ACTIVE>>, <<PAUSED, CANCELLED>>}

\* C9: validateStateTransition(from, to) is true exactly for Active->Paused,
\* Active->Settled, Active->Cancelled, Paused->Active and Paused->Cancelled
\* among the pairs of StreamStatus values.
C9_TransitionTable ==
    vt.fromState \in StreamStatus
        => (vt.result <=> <<vt.fromState, vt.toState>> \in AllowedTransitions)

\* a transition out of EXPIRED has been asked for and refused
C9_Witness ==
    vt.fromState = EXPIRED /\ vt.toState = SETTLED /\ vt.result = FALSE

\* C10: getStreamStatus returns SETTLED whenever settled equals the total
\* capacity, EXPIRED whenever now >= end and settled < capacity, and ACTIVE
\* only when now < end and the stream is not fully settled.
C10_StatusClassification ==
    st.result # "none" =>
        LET fullySettled == st.stream.settled = Some(TotalCapacity(st.stream))
        IN  /\ fullySettled => st.result = SETTLED
            /\ (st.currentTime >= st.stream.end
                  /\ SettledOf(st.stream) < TotalCapacity(st.stream))
                  => st.result = EXPIRED
            /\ st.result = ACTIVE
                  => (st.currentTime < st.stream.end /\ ~fullySettled)

(***************************************************************************)
(* Claims about the SDK's stream functions, under SpecSdk                  *)
(***************************************************************************)
\* C11: calculateStreamFlow(stream, now) is exactly 0 for now <= start,
\* exactly rate * (end - start) for now >= end and rate * (now - start) in
\* between, for every rate >= 1 and start < end (rate = 1 and end - start = 1
\* included); so it does not decrease as now grows.
C11_FlowBoundaries ==
    (call.fn = "calculateStreamFlow" /\ call.stream.start < call.stream.end) =>
        LET s == call.stream
            t == call.currentTime
        IN  /\ t <= s.start => call.result = 0
            /\ t >= s.end => call.result = s.ratePerSecond * (s.end - s.start)
            /\ (s.start < t /\ t < s.end) => call.result = s.ratePerSecond * (t - s.start)
            /\ \A u \in Times : u <= t => CalculateStreamFlow(s, u) <= call.result

\* the flow of a one-second stream of rate 1 has been asked for at its end
C11_Witness ==
    /\ call.fn = "calculateStreamFlow"
    /\ call.stream.ratePerSecond = 1
    /\ call.stream.end - call.stream.start = 1
    /\ call.currentTime = call.stream.end
    /\ call.result = 1

\* C12: getWithdrawable never fails for a stream that exists, whatever the time:
\* it returns what has flowed so far less the amount withdrawn, and 0 when that
\* difference is not positive; it fails with 'invalid stream' exactly for an id
\* no createStream has returned.
C12_GetWithdrawableTotal ==
    \A id \in CallIds :
        LET r == GetWithdrawableCall(id, now)
        IN  IF id < Len(streams)
            THEN LET due == CalculateStreamFlow(streams[id + 1], now) - withdrawn[id]
                 IN  /\ r.result = "ok"
                     /\ r.value = IF due > 0 THEN due ELSE 0
            ELSE r.result = "invalid stream"

\* a stream whose flow has been withdrawn in full, for which the call returns 0
C12_Witness ==
    \E id \in StreamIds :
        /\ id < Len(streams)
        /\ withdrawn[id] > 0
        /\ now > streams[id + 1].start
        /\ GetWithdrawableCall(id, now) = [result |-> "ok", value |-> 0]
        /\ GetWithdrawableCall(Len(streams), now).result = "invalid stream"

\* the errors validateStream reported, as a set of messages
ErrorsOf(result) ==
    IF result.errors = Undefined THEN {}
    ELSE {ValueOf(result.errors)[i] : i \in 1..Len(ValueOf(result.errors))}

\* the settled amount of a stream is within rate * (end - start)
SettledWithinCapacity(stream) ==
    \/ stream.settled = Undefined
    \/ /\ 0 <= ValueOf(stream.settled)
       /\ ValueOf(stream.settled) <= TotalCapacity(stream)

\* C13: validateStream reports an error for each violated rule (rate <= 0,
\* start >= end, a negative time, an empty party) and is then invalid; it is
\* valid when no rule is violated and the settled amount is within capacity.
C13_ValidateStreamRules ==
    call.fn = "validateStream" =>
        LET s == call.stream
            r == call.result
        IN  /\ s.from = "" => "Stream 'from' address is required" \in ErrorsOf(r)
            /\ s.to = "" => "Stream 'to' address is required" \in ErrorsOf(r)
            /\ s.ratePerSecond <= 0 => "Rate per second must be positive" \in ErrorsOf(r)
            /\ s.start >= s.end =>
                   "Stream start time must be before end time" \in ErrorsOf(r)
            /\ (s.start < 0 \/ s.end < 0) =>
                   "Stream times must be non-negative" \in ErrorsOf(r)
            /\ ErrorsOf(r) # {} => ~r.valid
            /\ ( /\ s.from # "" /\ s.to # ""
                 /\ s.ratePerSecond > 0
                 /\ s.start < s.end /\ s.start >= 0 /\ s.end >= 0
                 /\ SettledWithinCapacity(s) ) => r.valid

\* C14: validateStream reports a stream invalid whenever its settled amount
\* exceeds rate * (end - start), whatever the optional total field holds.
C14_SettledAboveCapacityIsInvalid ==
    ( /\ call.fn = "validateStream"
      /\ call.stream.settled # Undefined
      /\ ValueOf(call.stream.settled) > TotalCapacity(call.stream) ) =>
        ~call.result.valid

\* the entries of a validateBatch result
EntriesOf(result) == IF result.errors = Undefined THEN <<>> ELSE ValueOf(result.errors)

\* the positions in a result's entries that are tagged with index i
EntriesTagged(result, i) ==
    {k \in 1..Len(EntriesOf(result)) : EntriesOf(result)[k].index = Some(i)}

\* C15: validateBatch looks at every stream: the result is invalid iff the
\* batch is empty, larger than the size validateBatch allows, or holds a stream
\* that fails validateStream; each failing stream i has exactly one entry tagged
\* i, carrying that stream's errors, and a passing stream has none.
C15_BatchCollectsEveryError ==
    call.fn = "validateBatch" =>
        LET b == call.streams
            r == call.result
            Fails(i) == ~ValidateStream(b[i + 1]).valid
        IN  /\ r.valid <=> ~( \/ Len(b) = 0
                              \/ Len(b) > BatchSizeLimit
                              \/ \E i \in 0..(Len(b) - 1) : Fails(i) )
            /\ \A i \in 0..(Len(b) - 1) :
                   IF Fails(i)
                   THEN /\ Cardinality(EntriesTagged(r, i)) = 1
                        /\ \A k \in EntriesTagged(r, i) :
                               Some(EntriesOf(r)[k].messages) = ValidateStream(b[i + 1]).errors
                   ELSE EntriesTagged(r, i) = {}

\* a batch of 3 in which index 0 and index 2 have rate 0 and index 1 passes
C15_Witness ==
    /\ call.fn = "validateBatch"
    /\ Len(call.streams) = 3
    /\ call.streams[1].ratePerSecond = 0
    /\ call.streams[2].ratePerSecond > 0
    /\ call.streams[3].ratePerSecond = 0
    /\ ~call.result.valid
    /\ [k \in 1..Len(EntriesOf(call.result)) |-> EntriesOf(call.result)[k].index]
           = <<Some(0), Some(2)>>

\* C16: every batch of more than MAX_BATCH_SIZE streams, and the empty batch,
\* is invalid.
C16_BatchAboveConfiguredMaxIsInvalid ==
    ( /\ call.fn = "validateBatch"
      /\ (Len(call.streams) = 0 \/ Len(call.streams) > MAX_BATCH_SIZE) ) =>
        ~call.result.valid

\* the sum of rate * (end - start) over the streams at the positions in P
RECURSIVE CapacitySum(_, _)
CapacitySum(batch, P) ==
    IF P = {} THEN 0
    ELSE LET k == CHOOSE x \in P : TRUE
         IN  TotalCapacity(batch[k]) + CapacitySum(batch, P \ {k})

\* the orders a batch can be given in
Reorderings(batch) ==
    {[i \in 1..Len(batch) |-> batch[f[i]]] :
        f \in {g \in [1..Len(batch) -> 1..Len(batch)] :
                  \A i, j \in 1..Len(batch) : g[i] = g[j] => i = j}}

\* C18: calculateBatchValue is the sum over the batch of rate * (end - start):
\* 0 for the empty batch and the same for every order of the streams.
C18_BatchValueIsExactSum ==
    call.fn = "calculateBatchValue" =>
        /\ call.result = CapacitySum(call.streams, 1..Len(call.streams))
        /\ Len(call.streams) = 0 => call.result = 0
        /\ \A other \in Reorderings(call.streams) :
               CalculateBatchValue(other) = call.result

\* a batch of three streams of different value
C18_Witness ==
    /\ call.fn = "calculateBatchValue"
    /\ Len(call.streams) = 3
    /\ Cardinality({TotalCapacity(call.streams[i]) : i \in 1..3}) = 3
    /\ \A i \in 1..3 : TotalCapacity(call.streams[i]) > 0
    /\ call.result = TotalCapacity(call.streams[1]) + TotalCapacity(call.streams[2])
                        + TotalCapacity(call.streams[3])

\* C19: groupBySender and groupByReceiver partition the batch by from / to:
\* the groups are those of the keys that occur, none is empty, and each holds
\* the streams of its key, every one of them once, in the order of the batch.
C19_GroupsAreStablePartitions ==
    call.fn \in {"groupBySender", "groupByReceiver"} =>
        LET b == call.streams
            g == call.result
            field == IF call.fn = "groupBySender" THEN "from" ELSE "to"
        IN  /\ DOMAIN g = {b[i][field] : i \in 1..Len(b)}
            /\ \A k \in DOMAIN g :
                   /\ g[k] # <<>>
                   /\ g[k] = SelectSeq(b, LAMBDA s : s[field] = k)
            /\ \A i \in 1..Len(b) :
                   Cardinality({k \in DOMAIN g :
                       \E j \in 1..Len(g[k]) : g[k][j] = b[i]}) = 1

\* two different streams of one sender with a stream of another between them
C19_Witness ==
    /\ call.fn = "groupBySender"
    /\ Len(call.streams) = 3
    /\ call.streams[1].from = call.streams[3].from
    /\ call.streams[1] # call.streams[3]
    /\ call.streams[2].from # call.streams[1].from
    /\ call.result[call.streams[1].from] = <<call.streams[1], call.streams[3]>>
    /\ call.result[call.streams[2].from] = <<call.streams[2]>>

\* what the last call to the DualStateEngine returned agrees with the last
\* successful setDualState of its key
C20_ViewsReflectLastSet ==
    /\ engineOp.op = "setDualState" =>
           /\ engineOp.result = "ok" <=>
                  (engineOp.sender = EngineOwner \/ controllers[engineOp.sender])
           /\ engineOp.result = "ok" =>
                  /\ dualStates[engineOp.key].state0 = engineOp.value[1]
                  /\ dualStates[engineOp.key].state1 = engineOp.value[2]
                  /\ FinalizeStateCall(engineOp.key, 0) =
                         [result |-> "ok", value |-> <<engineOp.value[1]>>]
                  /\ FinalizeStateCall(engineOp.key, 1) =
                         [result |-> "ok", value |-> <<engineOp.value[2]>>]
    /\ (engineOp.op = "getDualState" /\ lastSet[engineOp.key] # Undefined) =>
           engineOp.value = ValueOf(lastSet[engineOp.key])
    /\ engineOp.op = "finalizeState" =>
           IF engineOp.index >= 2 \/ lastSet[engineOp.key] = Undefined
           THEN engineOp.result # "ok"
           ELSE /\ engineOp.result = "ok"
                /\ engineOp.value = <<ValueOf(lastSet[engineOp.key])[engineOp.index + 1]>>

\* a setDualState that fails, and a view, leave the contract's storage as it was
C20_StorageKept ==
    /\ (engineOp'.op = "setDualState" /\ engineOp'.result # "ok") =>
           UNCHANGED <<dualStates, controllers>>
    /\ engineOp'.op \in {"finalizeState", "getDualState"} =>
           UNCHANGED <<dualStates, controllers>>

\* C20: after a setDualState by the owner or an allowed controller the views
\* return the states of the most recent set of the key (finalizeState state0
\* for index 0 and state1 for index 1); finalizeState fails for an index >= 2
\* and for a key never set; setDualState by anyone else fails and changes
\* nothing; finalizeState changes nothing.
C20_DualStateEngine == [](C20_ViewsReflectLastSet) /\ [][C20_StorageKept]_vars

\* finalizeState(key, 1) answering with state1 of a key that an allowed
\* controller has set, in a block later than the deployment
C20_Witness ==
    /\ engineOp.op = "finalizeState"
    /\ engineOp.index = 1
    /\ controllers["carol"]
    /\ dualStates[engineOp.key].createdAt = MaxEngineTime
    /\ dualStates[engineOp.key].state0 # dualStates[engineOp.key].state1
    /\ engineOp.result = "ok"
    /\ engineOp.value = <<dualStates[engineOp.key].state1>>

\* the remainder of a wide number by a modulus m whose square is written down
RECURSIVE BigMod(_, _)
BigMod(a, m) ==
    IF a = <<>> THEN 0
    ELSE (BigMod(SubSeq(a, 2, Len(a)), m) * (Base % m) + a[1]) % m

CheckModuli == {9973, 46327, 46337}

\* p is the product of a and b as far as the remainders by CheckModuli and the
\* number of digits can tell
IsProduct(p, a, b) ==
    /\ \A i \in 1..Len(p) : p[i] \in 0..(Base - 1)
    /\ p = <<>> \/ p[Len(p)] # 0
    /\ \A m \in CheckModuli : BigMod(p, m) = (BigMod(a, m) * BigMod(b, m)) % m
    /\ (a # <<>> /\ b # <<>>) => Len(p) \in {Len(a) + Len(b) - 1, Len(a) + Len(b)}
    /\ (a = <<>> \/ b = <<>>) => p = <<>>

\* 31,536,000 * 10^27, written out
YearAtTenTo27 == <<0, 0, 0, 0, 0, 0, 0, 3600, 315>>

\* the elapsed time of a wide call: min(t, end) - 0
WideElapsed(t, end) == IF BigLess(t, end) THEN t ELSE end

\* C17: elapsed * ratePerSecond and the running withdrawn total never leave
\* uint256: for every rate up to 2^128 - 1 and elapsed time up to 2^64 - 1 the
\* contract computes the exact product (no panic, no wrapped value) and after
\* a withdraw withdrawn is that product; calculateStreamFlow returns the exact
\* product as well; for rate 10^27 over 31,536,000 seconds both give
\* 31,536,000 * 10^27.
C17_AmountsAreExact ==
    /\ call.fn = "withdraw" =>
           LET elapsed == WideElapsed(call.timestamp, call.stream.end)
               r == call.result
           IN  /\ r.result \in {"ok", "nothing to withdraw"}
               /\ r.owed.result = "ok"
               /\ IsProduct(r.owed.value, elapsed, call.stream.ratePerSecond)
               /\ BigLess(r.owed.value, Pow2(RateBits + TimeBits))
               /\ IsProduct(r.withdrawn, elapsed, call.stream.ratePerSecond)
               /\ r.result = "nothing to withdraw" <=> call.sinceLast = elapsed
               /\ (call.stream.ratePerSecond = TenTo27 /\ elapsed = OneYear) =>
                      r.owed.value = YearAtTenTo27 /\ r.withdrawn = YearAtTenTo27
    /\ call.fn = "calculateStreamFlowWide" =>
           LET elapsed == WideElapsed(call.currentTime, call.stream.end)
           IN  /\ IsProduct(call.result, elapsed, call.stream.ratePerSecond)
               /\ (call.stream.ratePerSecond = TenTo27 /\ elapsed = OneYear) =>
                      call.result = YearAtTenTo27

\* a withdraw of the largest rate over the longest time after an earlier
\* withdrawal
C17_Witness ==
    /\ call.fn = "withdraw"
    /\ call.stream.ratePerSecond = MaxRate
    /\ call.stream.end = MaxUint64
    /\ call.timestamp = MaxUint64
    /\ call.sinceLast = OneYear
    /\ call.result.result = "ok"
    /\ BigLess(Pow2(191), call.result.withdrawn)

\* what stream id may have paid by now: rate * (min(now, end) - start)
FlowedOnChain(id) ==
    LET s == streams[id + 1]
    IN  IF now <= s.start THEN 0 ELSE s.ratePerSecond * (Min(now, s.end) - s.start)

\* C21: with a token that lets withdraw be called again during transferFrom,
\* the payee of a stream never holds more than rate * (min(now, end) - start),
\* and once no call is in progress holds exactly withdrawn[id]. (The payee is
\* another account than the payer and receives tokens from the stream only.)
C21_NoDoublePay ==
    \A id \in ExistingIds :
        streams[id + 1].to # streams[id + 1].from =>
            /\ balances[streams[id + 1].to] <= FlowedOnChain(id)
            /\ stack = <<>> => balances[streams[id + 1].to] = withdrawn[id]

\* a withdraw made from inside transferFrom, after the balances moved, has just
\* been refused while the first withdraw is still in progress
C21_Witness ==
    /\ Len(stack) = 1
    /\ Top.moved
    /\ lastOp = Op("withdraw in transferFrom", Top.id, "nothing to withdraw", FALSE)
    /\ streams[Top.id + 1].to # streams[Top.id + 1].from
    /\ balances[streams[Top.id + 1].to] = Top.amount
    /\ Top.amount > 0

\* the whole of stream id: rate * (end - start)
CapacityOnChain(id) ==
    streams[id + 1].ratePerSecond * (streams[id + 1].end - streams[id + 1].start)

\* the payer of stream id can pay all that is left of it
PayerCanPayRest(id) ==
    /\ balances[streams[id + 1].from] >= CapacityOnChain(id) - withdrawn[id]
    /\ allowance[streams[id + 1].from] >= CapacityOnChain(id) - withdrawn[id]

\* a stream withdrawn in full owes nothing at any time
C22_FullyWithdrawnOwesNothing ==
    \A id \in ExistingIds :
        withdrawn[id] = CapacityOnChain(id) =>
            \A t \in Times : GetWithdrawableCall(id, t) = [result |-> "ok", value |-> 0]

\* a withdraw at or after the end takes all that is left when the payer can
\* pay it; a stream withdrawn in full stays so and refuses every withdraw
C22_LastWithdraw ==
    \A id \in ExistingIds :
        /\ ( /\ lastOp'.op = "withdraw" /\ lastOp'.id = id
             /\ now >= streams[id + 1].end
             /\ withdrawn[id] < CapacityOnChain(id)
             /\ PayerCanPayRest(id) ) =>
                /\ lastOp'.result = "ok"
                /\ withdrawn'[id] = CapacityOnChain(id)
        /\ withdrawn[id] = CapacityOnChain(id) =>
                /\ withdrawn'[id] = CapacityOnChain(id)
                /\ (lastOp'.op = "withdraw" /\ lastOp'.id = id) =>
                       lastOp'.result = "nothing to withdraw"

\* C22: while the payer can pay, a withdraw at any time >= end succeeds unless
\* all is withdrawn and leaves withdrawn[id] = rate * (end - start); from then
\* on getWithdrawable is 0 and every withdraw on the stream fails with
\* "nothing to withdraw".
C22_StreamBecomesTerminal ==
    [](C22_FullyWithdrawnOwesNothing) /\ [][C22_LastWithdraw]_vars

\* after the end the rest of a stream was withdrawn, and the next withdraw on
\* it has been refused
C22_Witness ==
    /\ lastOp.op = "withdraw" /\ lastOp.again
    /\ lastOp.result = "nothing to withdraw"
    /\ lastOp.id \in ExistingIds
    /\ now >= streams[lastOp.id + 1].end
    /\ withdrawn[lastOp.id] = CapacityOnChain(lastOp.id)

\* C23: generateSettlementProof throws for every settledAmount above the
\* amount flowed at currentTime, the flow stopping at the stream's end; so it
\* returns no proof for a settledAmount above rate * (end - start), nor for a
\* currentTime before start.
C23_SettlementWithinFlow ==
    call.fn = "generateSettlementProof" =>
        /\ call.settledAmount > CalculateStreamFlow(call.stream, call.currentTime) =>
               call.result.result # "ok"
        /\ call.settledAmount > TotalCapacity(call.stream) => call.result.result # "ok"
        /\ call.currentTime < call.stream.start => call.result.result # "ok"

\* calculateStreamFlow(stream, t) - w clamped at 0 is getWithdrawable at
\* block.timestamp = t, w being withdrawn[id]
SdkAgreesWithChain(id, t) ==
    LET flow == CalculateStreamFlow(streams[id + 1], t)
    IN  GetWithdrawableCall(id, t) =
            [result |-> "ok",
             value |-> IF flow - withdrawn[id] > 0 THEN flow - withdrawn[id] ELSE 0]

\* with nothing withdrawn, the prover's owed for elapsed = min(t, end) - start
\* is what the SDK and the contract compute at t
ProverAgrees(id, t) ==
    LET s == streams[id + 1]
        owed == GenerateQStreamProof(s.ratePerSecond, Min(t, s.end) - s.start).owed
    IN  withdrawn[id] = 0 =>
            /\ owed = CalculateStreamFlow(s, t)
            /\ owed = GetWithdrawable(id, t)

\* C24 as stated: the three computations agree at every time t
C24_AsClaimed ==
    \A id \in ExistingIds, t \in Times :
        SdkAgreesWithChain(id, t) /\ ProverAgrees(id, t)

\* C24: for the same stream, time t and withdrawn amount w, calculateStreamFlow
\* less w clamped at 0 equals getWithdrawable, at every t; from t = start on
\* the prover's owed for elapsed = min(t, end) - start and w = 0 equals both.
C24_OffChainAgreesWithOnChain ==
    \A id \in ExistingIds, t \in Times :
        /\ SdkAgreesWithChain(id, t)
        /\ t >= streams[id + 1].start => ProverAgrees(id, t)

\* inside its window, a stream with part of its flow withdrawn and more due,
\* beside one from which nothing was withdrawn
C24_Witness ==
    \E id, other \in ExistingIds :
        /\ withdrawn[id] > 0
        /\ streams[id + 1].start < now /\ now < streams[id + 1].end
        /\ GetWithdrawable(id, now) > 0
        /\ withdrawn[other] = 0
        /\ GenerateQStreamProof(streams[other + 1].ratePerSecond,
                                now - streams[other + 1].start).owed > 0

RECURSIVE Power(_, _)
Power(b, n) == IF n = 0 THEN 1 ELSE b * Power(b, n - 1)

RetryDone == retry.pc \in {"returned", "thrown"}

\* how the attempts made so far ended, and what withRetry did about it
C25_Attempts ==
    retry.pc # "new" =>
        LET config == retry.config
            outcomes == retryEnv.outcomes
            calls == retryEnv.calls
            Failed(i) == ~outcomes[i].ok
        IN  /\ calls <= config.maxAttempts
            /\ Len(outcomes) = IF retry.pc = "attempt" THEN calls - 1 ELSE calls
            /\ \A i \in 1..Len(outcomes) : ~Failed(i) => (i = calls /\ retry.pc = "returned")
            /\ retry.pc = "returned" =>
                   /\ outcomes[calls].ok
                   /\ retry.value = outcomes[calls].value
            /\ retry.pc = "thrown" =>
                   /\ calls = config.maxAttempts
                   /\ \A i \in 1..calls : Failed(i)
                   /\ calls > 0 =>
                          /\ retry.error.isError
                          /\ retry.error.message = outcomes[calls].error.message
            /\ retryEnv.waits =
                   [i \in 1..Len(retryEnv.waits) |->
                       config.delayMs * Power(config.backoffMultiplier, i - 1)]
            /\ Len(retryEnv.waits) =
                   IF calls = 0 THEN 0 ELSE calls - 1

\* once withRetry has returned or thrown, fn is not invoked again
C25_NoCallAfterEnd == RetryDone => UNCHANGED <<retry, retryEnv>>

\* C25: withRetry invokes fn at most maxAttempts times and not again after a
\* success, returns the value of the first success, throws the error of the
\* last attempt when all fail, waits delayMs * backoffMultiplier^(k-1) after
\* the k-th failure only when another attempt follows, and ends.
C25_WithRetry ==
    /\ [](C25_Attempts)
    /\ [][C25_NoCallAfterEnd]_vars
    /\ <>RetryDone

\* three attempts failed, the last with a value that is not an Error, after
\* waits of 2 and 4
C25_Witness ==
    /\ retry.pc = "thrown"
    /\ retryEnv.calls = 3
    /\ retryEnv.waits = <<2, 4>>
    /\ ~retryEnv.outcomes[3].error.isError
    /\ retry.error = [isError |-> TRUE, message |-> "oops"]

\* a step in which a call of execute starts: it is let through or it is thrown out
ExecuteStep == breakerEnv'.event \in {"invoked", "Circuit breaker is OPEN"}

\* a step in which the fn of a call rejects
FailureStep == breakerEnv'.event = "failure"

\* the time since the last failed call
SinceLastFailure == breakerEnv.now - ValueOf(breakerEnv.lastFailureAt)

\* a CLOSED breaker opens in exactly the steps that complete failureThreshold
\* failed calls in a row
C26_Opens ==
    (breaker.pc = "live" /\ breaker.state = CLOSED)
        => ((breaker'.state = OPEN)
              <=> (FailureStep /\ breakerEnv'.streak = breaker.options.failureThreshold))

\* an OPEN breaker throws a call of execute out, fn not invoked, while no more
\* than resetTimeoutMs has passed since the last failure
C26_OpenRejects ==
    (breaker.pc = "live" /\ breaker.state = OPEN /\ ExecuteStep
        /\ SinceLastFailure <= breaker.options.resetTimeoutMs)
        => (/\ breakerEnv'.event = "Circuit breaker is OPEN"
            /\ breakerEnv'.inFlight = breakerEnv.inFlight
            /\ breaker' = breaker)

\* an OPEN breaker lets the first call of execute after the timeout through
\* and is HALF_OPEN from then on
C26_HalfOpens ==
    (breaker.pc = "live" /\ breaker.state = OPEN /\ ExecuteStep
        /\ SinceLastFailure > breaker.options.resetTimeoutMs)
        => (/\ breakerEnv'.event = "invoked"
            /\ breakerEnv'.inFlight = breakerEnv.inFlight + 1
            /\ breaker'.state = HALF_OPEN)

\* C26: a CircuitBreaker leaves CLOSED for OPEN exactly when failureThreshold
\* calls in a row have failed, a success (or reset()) starting the count
\* again; while it is OPEN and no more than resetTimeoutMs has passed since the
\* last failure, execute rejects with 'Circuit breaker is OPEN' and does not
\* invoke fn; the first execute after the timeout makes it HALF_OPEN and
\* invokes fn.
C26_BreakerOpens == [][C26_Opens /\ C26_OpenRejects /\ C26_HalfOpens]_vars

\* a breaker with failureThreshold 2 that opened on the second failure in a
\* row, threw a call out, and let one through after the timeout
C26_Witness ==
    /\ breaker.pc = "live"
    /\ breaker.options.failureThreshold = 2
    /\ breaker.state = HALF_OPEN
    /\ breakerEnv.event = "invoked"
    /\ breakerEnv.streak = 2
    /\ SinceLastFailure > breaker.options.resetTimeoutMs

\* a failed call finds the breaker HALF_OPEN and leaves it OPEN
C27_FailureReopens ==
    (breaker.pc = "live" /\ breaker.state = HALF_OPEN /\ FailureStep)
        => breaker'.state = OPEN

\* the breaker goes from HALF_OPEN to CLOSED by a call that succeeds, the last
\* of successThreshold successes in a row since the breaker became HALF_OPEN
C27_ClosesAfterSuccesses ==
    (breaker.pc = "live" /\ breaker.state = HALF_OPEN /\ breaker'.state = CLOSED
        /\ breakerEnv'.event # "reset")
        => (/\ breakerEnv'.event = "success"
            /\ breakerEnv'.halfOpenSuccesses >= breaker.options.successThreshold)

\* C27: in HALF_OPEN any failed call returns the CircuitBreaker to OPEN, and it
\* returns to CLOSED only after successThreshold consecutive successful calls
\* since it entered HALF_OPEN; a failure in between never leaves it HALF_OPEN
\* with the success count kept.
C27_HalfOpenRecovers == [][C27_FailureReopens /\ C27_ClosesAfterSuccesses]_vars

\* the indices that results and errors have an entry for
ResultIndices == {r.index : r \in bulk.results}
ErrorIndices == {e.index : e \in bulk.errors}

\* no more than maxConcurrent calls of fn have started and not settled
InFlightBounded ==
    bulk.pc # "new" => Cardinality(bulkEnv.running) <= bulk.options.maxConcurrent

\* fn is called at most once for an item, and once for every item by the time
\* executeMany returns
OncePerItem ==
    bulk.pc # "new" =>
        \A i \in ItemIndices :
            /\ bulkEnv.invoked[i] <= 1
            /\ (bulk.pc = "returned" /\ i < bulk.items) => bulkEnv.invoked[i] = 1

\* executeMany has returned only if no call of fn is still running
ReturnsAfterSettled ==
    bulk.pc = "returned" => bulkEnv.running = {}

\* the outcome of item i is at results[i] or under key i of errors, never at
\* both, and what executeMany returns has the outcome of every item
OutcomesRecorded ==
    bulk.pc # "new" =>
        /\ ResultIndices \cap ErrorIndices = {}
        /\ \A r \in bulk.results : r.value = r.index /\ bulkEnv.outcome[r.index] = "resolved"
        /\ \A e \in bulk.errors : bulkEnv.outcome[e.index] # "resolved"
        /\ bulk.pc = "returned" =>
              \A i \in 0..(bulk.items - 1) :
                  /\ bulkEnv.outcome[i] = "resolved" => i \in ResultIndices
                  /\ bulkEnv.outcome[i] = "rejected" => i \in ErrorIndices

\* C28: executeMany never has more than maxConcurrent invocations of fn in
\* flight; with continueOnError = true it calls fn exactly once for every
\* item, returns only after every invocation has settled, and has the outcome
\* of item i at results[i] if it succeeded or under key i of errors if it
\* failed, never both and never under another index, in whatever order the
\* invocations complete.
C28_ExecuteMany ==
    /\ InFlightBounded
    /\ (bulk.pc # "new" /\ bulk.options.continueOnError) =>
          (OncePerItem /\ ReturnsAfterSettled /\ OutcomesRecorded)

\* the keys the cache holds
KeysHeld == {cache.entries[k].key : k \in 1..Len(cache.entries)}

\* a new key goes into a cache that holds maxSize entries: the least recently
\* used key, and no other, is gone afterwards
EvictsLeastRecentlyUsed ==
    (cache.pc = "live" /\ cacheEnv'.event = "insert into full")
        => \E key \in CacheKeys \ KeysHeld :
               /\ KeysHeld' = (KeysHeld \ {Head(cacheEnv.recency)}) \cup {key}
               /\ Len(cache'.entries) = Len(cache.entries)

\* C29: with the LRU policy, inserting a new key into a Cache that holds
\* maxSize entries evicts exactly one entry, the one whose most recent get or
\* set is the oldest, and the number of entries never exceeds maxSize
\* (maxSize >= 1).
C29_LeastRecentlyUsedEvicted ==
    /\ [](cache.pc = "live" => Len(cache.entries) <= cache.maxSize)
    /\ [][EvictsLeastRecentlyUsed]_vars

\* C30: after any createStream and deleteStream calls, getUserStreams(a) has
\* exactly the tracked streams whose from or to is a, each of them once; a
\* deleted stream is in no user's list.
C30_UserStreamsExact ==
    \A a \in Users :
        LET listed == GetUserStreams(a)
        IN  /\ \A j, k \in 1..Len(listed) : listed[j].id = listed[k].id => j = k
            /\ {listed[k] : k \in 1..Len(listed)}
                 = {mgrStreams[id] : id \in {i \in DOMAIN mgrStreams :
                                                mgrStreams[i].from = a \/ mgrStreams[i].to = a}}



====
